---- MODULE Spec2Model ----
(***************************************************************************)
(* Verification model of the Chicken Hawk governance harness:             *)
(*   - the Engine loop (chickenhawk/chicken_hawk.py, ChickenHawk.run)      *)
(*   - the StateManager task state machine (core/state_manager.py)        *)
(*   - the OracleGatekeeper gate battery (core/oracle_gates.py)           *)
(*   - the HITLController checkpoint protocol (core/hitl_controller.py)   *)
(*   - the TokenCounter and the RLMDistiller (core/token_counter.py,      *)
(*     core/rlm_distiller.py)                                             *)
(* Five specifications share the variables: Spec (an Engine run under     *)
(* main), SpecHITL (the controller driven by callers and waiters),        *)
(* SpecGates (verify_all on every gate configuration and gate outcome),   *)
(* SpecSM (the StateManager under any call sequence) and SpecTC (a        *)
(* TokenCounter and an RLMDistiller under any call sequence).             *)
(***************************************************************************)
EXTENDS Integers, Sequences, FiniteSets, TLC

\* ------------------------------------------------------------------ bounds
MaxTasks == 2          \* tasks of a work plan
MaxRetriesCfg == 5     \* largest configured max_retries_per_task explored
MaxCheckpoints == 2    \* checkpoint() calls explored in SpecHITL
MaxLogRetries == 2     \* retry counts explored in SpecSM
MaxTextLen == 5        \* characters of one text handed to the TokenCounter
MaxBufferLen == 16     \* characters of context_buffer explored in SpecTC
MaxDistills == 2       \* distill() calls explored in SpecTC
MaxRestarts == 2       \* restarts of main() explored in SpecRestart

\* ------------------------------------------------------- program constants
check_interval == 5        \* HITLController.check_interval
poll_interval == 5         \* _wait_for_resolution poll_interval (seconds)
SecondsPerMinute == 60     \* timeout_minutes * 60
max_window_tokens == 128000
distill_threshold_pct == 70
effort_max_tokens == 50000 \* _gate_effort max_tokens
virtue_threshold_pm == 995 \* 0.995, in thousandths
technical_threshold_pct == 80

NoTask == 0

VARIABLES
    \* StateManager / Engine
    tasks,            \* PRDState.tasks: sequence of TaskState records
    max_retries,      \* HarnessConfig.max_retries
    pc,               \* position of ChickenHawk.run
    current,          \* the task object run() holds (index into tasks), or NoTask
    exit_reason,      \* why the while loop of run() was left
    run_result,       \* value returned by run(): "none" until it returns
    current_tokens,   \* TokenCounter.current_tokens
    distillations,    \* LoopMetrics.distillations
    gate_plan,        \* environment: gate battery of task t fails its first gate_plan[t] runs
    gate_runs,        \* number of verify_all calls made for each task
    exec_calls,       \* number of execute_task calls made for each task
    attempts,         \* number of times _apply_effort was entered for each task
    collab_failed,    \* some execute_task call returned success = False
    hitl_requested,   \* some HIGH_RISK checkpoint was requested by run()
    exhausted,        \* tasks marked failed because retry_count reached max_retries
    hitl_status,      \* run()'s local "status": what the HIGH_RISK checkpoint returned
    ledger,           \* the effort ledger file: the action of each line, in order
    exit_code,        \* the process exit status: << >> while the process runs
    store,            \* the state file (task-state.json): the "tasks" list as saved
    store_torn,       \* the state file ends before its JSON document is closed
    sm_call,          \* the last StateManager call: its arguments and what it returned
    \* HITLController
    task_counter,     \* HITLController.task_counter
    checkpoints,      \* every HITLCheckpoint object created so far, by id
    pending_checkpoints, \* keys of HITLController.pending_checkpoints
    next_id,          \* next fresh checkpoint id
    auto_approve,     \* HITL_AUTO_APPROVE_LOW_RISK
    timeout_minutes,  \* HITL_TIMEOUT_MINUTES
    stationary,       \* HITLController.stationary
    waiter,           \* the blocking checkpoint() call in flight: _wait_for_resolution's frame
    returned,         \* per checkpoint: what its checkpoint() call returned ("none": not yet)
    email_calls,      \* invocations of the email collaborator
    webhook_calls,    \* invocations of the webhook collaborator
    last_resolve,     \* the last resolve() call: its arguments and what it returned
    last_notify,      \* what the collaborators of the last _notify call returned
    \* OracleGatekeeper
    gates_enabled,    \* OracleGatekeeper.gates[name].enabled
    gate_inputs,      \* what the external checks of the last verify_all reported
    effort_threshold, \* OracleGatekeeper.gates["effort"].threshold
    gate_result,      \* GateResult of the last verify_all, or NoResult
    gate_raised,      \* the last verify_all call raised instead of returning
    \* TokenCounter / RLMDistiller
    context_buffer,   \* TokenCounter.context_buffer: a sequence of characters
    max_tokens,       \* TokenCounter.max_tokens
    distillation_count, \* RLMDistiller.distillation_count
    summaries,        \* per distill call: the count in the summary's header line
    tc_call           \* the last TokenCounter call: its arguments and what it returned

engineVars == <<tasks, max_retries, pc, current, exit_reason, run_result,
                current_tokens, distillations, gate_plan,
                gate_runs, exec_calls, attempts, collab_failed, hitl_requested, exhausted,
                hitl_status>>
mainVars == <<ledger, exit_code>>
smVars == <<store, store_torn, sm_call>>
hitlVars == <<task_counter, checkpoints, pending_checkpoints, next_id, auto_approve,
              timeout_minutes, stationary, waiter, returned, email_calls, webhook_calls,
              last_resolve, last_notify>>
gateVars == <<gates_enabled, gate_inputs, effort_threshold, gate_result, gate_raised>>
engineVars_but_pc == <<tasks, max_retries, current, exit_reason, run_result,
                       current_tokens, distillations, gate_plan, gate_runs,
                       exec_calls, attempts, collab_failed, hitl_requested, exhausted,
                       hitl_status>>
tcVars == <<context_buffer, max_tokens, distillation_count, summaries, tc_call>>
vars == <<engineVars, mainVars, smVars, hitlVars, gateVars, tcVars>>

\* ================================================================ TaskState
\* The attributes a TaskState object has (the dataclass fields).
TaskStateFields ==
    {"id", "title", "status", "retry_count", "last_failure", "started_at",
     "completed_at", "output_path", "spec_path", "tokens_used"}

\* hasattr(task, name) / whether task.<name> evaluates without AttributeError.
hasattr(name) == name \in TaskStateFields

\* Titles of the plans explored, as lower-cased word sequences.
Titles == { <<"write", "a", "haiku">>, <<"drop", "the", "production", "database">> }

TaskState(id, title) ==
    [id |-> id, title |-> title, status |-> "pending", retry_count |-> 0,
     last_failure |-> "none"]

\* TaskStatus = Literal[...]
TaskStatus == {"pending", "in_progress", "complete", "failed", "blocked"}

\* The modelled fields of a TaskState, in dataclass order.
FieldOrder == <<"id", "title", "status", "retry_count", "last_failure">>

\* TaskState.to_dict (asdict): the key/value pairs of the object, in field
\* order, as json.dump writes them.
to_dict(t) == [k \in 1..Len(FieldOrder) |-> <<FieldOrder[k], t[FieldOrder[k]]>>]

\* TaskState.from_dict: cls(**{k: v for k, v in data.items() if k is a field}).
from_dict(data) ==
    LET keys == {data[k][1] : k \in 1..Len(data)} \cap TaskStateFields
    IN  [f \in keys |-> data[CHOOSE k \in 1..Len(data) : data[k][1] = f][2]]

\* ============================================================= StateManager
FirstPending_last(ts) ==
    IF \E i \in 1..Len(ts) : ts[i].status = "pending"
    THEN CHOOSE i \in 1..Len(ts) :
            /\ ts[i].status = "pending"
            /\ \A j \in (i + 1)..Len(ts) : ts[j].status # "pending"
    ELSE NoTask

FirstPending_resumes(ts) ==
    IF \E i \in 1..Len(ts) : ts[i].status \in {"pending", "in_progress"}
    THEN CHOOSE i \in 1..Len(ts) :
            /\ ts[i].status \in {"pending", "in_progress"}
            /\ \A j \in 1..(i - 1) : ts[j].status \notin {"pending", "in_progress"}
    ELSE NoTask

FirstPending(ts) ==
    IF \E i \in 1..Len(ts) : ts[i].status = "pending"
    THEN CHOOSE i \in 1..Len(ts) :
            /\ ts[i].status = "pending"
            /\ \A j \in 1..(i - 1) : ts[j].status # "pending"
    ELSE NoTask

\* get_next_task: the plan after the call (the returned task is FirstPending).
get_next_task(ts) ==
    LET i == FirstPending(ts)
    IN  IF i = NoTask THEN ts
        ELSE [ts EXCEPT ![i].status = "in_progress"]

\* get_task: the position of the first task of the plan whose id is task_id,
\* NoTask when no task has it.
get_task(ts, task_id) ==
    IF \E i \in 1..Len(ts) : ts[i].id = task_id
    THEN CHOOSE i \in 1..Len(ts) :
            /\ ts[i].id = task_id
            /\ \A j \in 1..(i - 1) : ts[j].id # task_id
    ELSE NoTask

mark_complete(ts, task_id) ==
    LET i == get_task(ts, task_id)
    IN  IF i # NoTask THEN [ts EXCEPT ![i].status = "complete"] ELSE ts

mark_failed(ts, task_id) ==
    LET i == get_task(ts, task_id)
    IN  IF i # NoTask THEN [ts EXCEPT ![i].status = "failed"] ELSE ts

log_retry_keeps_status(ts, task_id, reason) ==
    LET i == get_task(ts, task_id)
    IN  IF i # NoTask
        THEN [ts EXCEPT ![i].retry_count = @ + 1,
                        ![i].last_failure = reason]
        ELSE ts

log_retry(ts, task_id, reason) ==
    LET i == get_task(ts, task_id)
    IN  IF i # NoTask
        THEN [ts EXCEPT ![i].retry_count = @ + 1,
                        ![i].last_failure = reason,
                        ![i].status = "pending"]
        ELSE ts

is_complete_any_failed(ts) ==
    IF Len(ts) = 0 THEN TRUE
    ELSE \/ \A i \in 1..Len(ts) : ts[i].status \in {"complete", "failed"}
         \/ \E i \in 1..Len(ts) : ts[i].status = "failed"

is_complete_ignores_blocked(ts) ==
    IF Len(ts) = 0 THEN TRUE
    ELSE \A i \in 1..Len(ts) : ts[i].status \in {"complete", "failed", "blocked"}

is_complete(ts) ==
    IF Len(ts) = 0 THEN TRUE
    ELSE \A i \in 1..Len(ts) : ts[i].status \in {"complete", "failed"}

\* _save: json.dump(self.state.to_dict()) -- the "tasks" list of the file.
_save(ts) == [i \in 1..Len(ts) |-> to_dict(ts[i])]

\* _load: [TaskState.from_dict(t) for t in data.get("tasks", [])]
_load(file) == [i \in 1..Len(file) |-> from_dict(file[i])]

saved_if_found_write_back(ts, task_id, file) == file

\* The store after a mutation by id: written only when get_task found the task.
saved_if_found(ts, task_id, file) ==
    IF get_task(ts, task_id) # NoTask THEN _save(ts) ELSE file

\* Whether the file is torn after a mutation by id: a completed _save leaves a
\* whole document, a mutation that found no task leaves the file as it was.
torn_if_found(ts, task_id, torn) ==
    IF get_task(ts, task_id) # NoTask THEN FALSE ELSE torn

\* The files a _save cut short by KeyboardInterrupt can leave: open(path, "w")
\* has emptied the file and json.dump has written only the first chunks of
\* the document, so k task entries are whole and the document is not closed.
TornSaves(ts) == {SubSeq(_save(ts), 1, k) : k \in 0..(Len(ts) - 1)}

\* A PRD is a sequence of lines; a line is a task header ("## Task: <id> -- <title>"
\* or "### Task: ...") or any other text.  A header's id is written as a name
\* in one of two spellings ("Task 1" / "task-1").
\* The header names explored: enough for two headers to carry the same one.
PrdNames == {1, 2}
PrdLines ==
    [header : {TRUE}, name : PrdNames, spaced : BOOLEAN]
        \cup {[header |-> FALSE, name |-> 0, spaced |-> FALSE]}

\* task_id.replace(" ", "-").lower(): both spellings of a name give one id.
normalize_id(line) == line.name

RECURSIVE initialize_from_prd(_)
\* initialize_from_prd: one pending TaskState per header line, in document order.
initialize_from_prd(lines) ==
    IF Len(lines) = 0 THEN << >>
    ELSE LET rest == initialize_from_prd(Tail(lines))
             line == Head(lines)
         IN  IF line.header
             THEN <<TaskState(normalize_id(line), <<"write", "a", "haiku">>)>> \o rest
             ELSE rest

\* Failure reasons the callers of log_retry pass.
RetryReasons == {"gate", "Execution exception"}

NoCall == [op |-> "none", id |-> 0, reason |-> "none", task |-> 0, ok |-> FALSE]

\* ============================================================ TokenCounter
\* A text of n characters.
Text(n) == [k \in 1..n |-> "x"]

\* The texts explored: every length up to MaxTextLen.
Texts == {Text(n) : n \in 0..MaxTextLen}

\* A counter is the pair of fields add and reset work on.
TokenCounter(count, buffer) == [current_tokens |-> count, context_buffer |-> buffer]

\* _estimate_tokens: len(text) // 4.
_estimate_tokens(text) == Len(text) \div 4

\* add: the counter after the call (the call returns its current_tokens).
add(c, text) ==
    TokenCounter(c.current_tokens + _estimate_tokens(text), c.context_buffer \o text)

reset(c) == TokenCounter(0, << >>)

\* reset_with_summary: self.reset(); self.add(summary).
reset_with_summary(c, summary) == add(reset(c), summary)

\* get_usage_ratio: current_tokens / max_tokens if max_tokens > 0 else 0,
\* as the fraction <<numerator, denominator>>.
get_usage_ratio(c, max) == IF max > 0 THEN <<c.current_tokens, max>> ELSE <<0, 1>>

should_distill_at_threshold(c, max, threshold_pct) ==
    LET usage == get_usage_ratio(c, max)
    IN  usage[1] * 100 >= threshold_pct * usage[2]

\* should_distill: get_usage_ratio() > threshold, the threshold in hundredths.
should_distill(c, max, threshold_pct) ==
    LET usage == get_usage_ratio(c, max)
    IN  usage[1] * 100 > threshold_pct * usage[2]

\* Lengths of the distilled summaries explored in a run.
SummaryLens == {0, 400}

\* max_tokens values and thresholds (hundredths) explored.
MaxTokensExplored == {0, 2, 4}
DistillThresholds == {50, distill_threshold_pct}

NoTcCall ==
    [op |-> "none", text |-> << >>, ret |-> 0, threshold |-> 0, ok |-> FALSE,
     usage |-> <<0, 1>>]

\* ============================================================ RLMDistiller
distill_keeps_count(count) == [distillation_count |-> count, header |-> count]

\* distill: self.distillation_count += 1, then _build_summary writes
\* "> Distillation #{self.distillation_count}" in the header line.
distill(count) == [distillation_count |-> count + 1, header |-> count + 1]

\* ========================================================= OracleGatekeeper
GateOrder ==
    <<"technical", "virtue", "ethics", "judge", "strategy", "perception", "effort">>
GateNames == {GateOrder[k] : k \in 1..Len(GateOrder)}

\* OracleGatekeeper.__init__: every gate enabled except perception.
DefaultGates == [g \in GateNames |-> g # "perception"]

\* What the external checks report to one verify_all call.
GateInputs ==
    {in \in
       [pytest : {"pass", "fail", "timeout", "missing"},  \* subprocess.run(["pytest", ...])
        coverage_total : {<< >>, <<79>>, <<80>>},         \* the percentage of the TOTAL
                                                          \* line of its output, if any
        lint : {"pass", "fail", "timeout", "missing"},    \* subprocess.run(["ruff", ...])
        virtue_available : BOOLEAN,                       \* the validator import succeeds
        virtue_raises : BOOLEAN,                          \* validate_artifact raises
        alignment_pm : {994, 995},                        \* alignment_score, thousandths
        virtue_tokens : {0, 50000, 50001},                \* tokens_used of the validator
        ethics_available : BOOLEAN,                       \* the charter import succeeds
        ethics_raises : BOOLEAN,                          \* check_charter_safe raises
        charter_safe : BOOLEAN] :
       /\ in.virtue_raises => in.virtue_available
       /\ in.ethics_raises => in.ethics_available}

\* The coverage parsed from pytest's output: 0.0 unless a TOTAL line carries
\* a percentage.
parse_coverage(in) ==
    IF in.pytest \in {"pass", "fail"} /\ Len(in.coverage_total) > 0
    THEN in.coverage_total[1]
    ELSE 0

_gate_technical_lint_strict(in) ==
    LET pytest_passed == in.pytest = "pass"
        coverage == parse_coverage(in)
        lint_passed == in.lint = "pass"
        passed == pytest_passed /\ lint_passed /\ coverage >= technical_threshold_pct
    IN  [passed |-> passed, tokens |-> 0,
         reason |-> IF passed THEN "none" ELSE "technical"]

_gate_technical(in) ==
    LET pytest_passed == in.pytest = "pass"
        coverage == parse_coverage(in)
        lint_passed == in.lint \in {"pass", "timeout", "missing"}
        passed == pytest_passed /\ lint_passed /\ coverage >= technical_threshold_pct
    IN  [passed |-> passed, tokens |-> 0,
         reason |-> IF passed THEN "none" ELSE "technical"]

_gate_virtue_fail_closed(in) ==
    IF in.virtue_available
    THEN LET passed == in.alignment_pm >= virtue_threshold_pm
         IN  [passed |-> passed, tokens |-> in.virtue_tokens,
              reason |-> IF passed THEN "none" ELSE "virtue"]
    ELSE [passed |-> FALSE, tokens |-> 0, reason |-> "virtue"]

_gate_virtue(in) ==
    IF in.virtue_available
    THEN LET passed == in.alignment_pm >= virtue_threshold_pm
         IN  [passed |-> passed, tokens |-> in.virtue_tokens,
              reason |-> IF passed THEN "none" ELSE "virtue"]
    ELSE [passed |-> TRUE, tokens |-> 0, reason |-> "none"]

_gate_ethics(in) ==
    IF in.ethics_available
    THEN [passed |-> in.charter_safe, tokens |-> 0,
          reason |-> IF in.charter_safe THEN "none" ELSE "ethics"]
    ELSE [passed |-> TRUE, tokens |-> 0, reason |-> "none"]

_gate_judge(in) == [passed |-> TRUE, tokens |-> 0, reason |-> "none"]

_gate_strategy(in) == [passed |-> TRUE, tokens |-> 0, reason |-> "none"]

_gate_perception(in) == [passed |-> TRUE, tokens |-> 0, reason |-> "none"]

_gate_effort(tokens_used) ==
    LET passed == tokens_used <= effort_max_tokens
    IN  [passed |-> passed, tokens |-> 0,
         reason |-> IF passed THEN "none" ELSE "effort"]

\* The gates whose "tokens" verify_all adds to total_tokens.
TokenGates == {"virtue", "judge", "perception"}

\* The dict gate g returns, given the tokens accumulated before it.
RunGate(g, in, total_tokens) ==
    CASE g = "technical"  -> _gate_technical(in)
      [] g = "virtue"     -> _gate_virtue(in)
      [] g = "ethics"     -> _gate_ethics(in)
      [] g = "judge"      -> _gate_judge(in)
      [] g = "strategy"   -> _gate_strategy(in)
      [] g = "perception" -> _gate_perception(in)
      [] g = "effort"     -> _gate_effort(total_tokens)

GateBlock_overwrites_passed(acc, g, enabled, in) ==
    IF enabled[g]
    THEN LET r == RunGate(g, in, acc.tokens_used)
         IN  [passed |-> r.passed,
              gate_status |-> acc.gate_status @@ (g :> r.passed),
              failure_reason |->
                  IF ~r.passed /\ acc.failure_reason = "none"
                  THEN r.reason ELSE acc.failure_reason,
              tokens_used |-> IF g \in TokenGates
                              THEN acc.tokens_used + r.tokens
                              ELSE acc.tokens_used]
    ELSE IF g = "perception"
         THEN [acc EXCEPT !.gate_status = @ @@ (g :> TRUE)]
         ELSE acc

GateBlock_last_reason(acc, g, enabled, in) ==
    IF enabled[g]
    THEN LET r == RunGate(g, in, acc.tokens_used)
         IN  [passed |-> IF ~r.passed THEN FALSE ELSE acc.passed,
              gate_status |-> acc.gate_status @@ (g :> r.passed),
              failure_reason |-> IF ~r.passed THEN r.reason ELSE acc.failure_reason,
              tokens_used |-> IF g \in TokenGates
                              THEN acc.tokens_used + r.tokens
                              ELSE acc.tokens_used]
    ELSE IF g = "perception"
         THEN [acc EXCEPT !.gate_status = @ @@ (g :> TRUE)]
         ELSE acc

GateBlock_skips_perception(acc, g, enabled, in) ==
    IF enabled[g]
    THEN LET r == RunGate(g, in, acc.tokens_used)
         IN  [passed |-> IF ~r.passed THEN FALSE ELSE acc.passed,
              gate_status |-> acc.gate_status @@ (g :> r.passed),
              failure_reason |->
                  IF ~r.passed /\ acc.failure_reason = "none"
                  THEN r.reason ELSE acc.failure_reason,
              tokens_used |-> IF g \in TokenGates
                              THEN acc.tokens_used + r.tokens
                              ELSE acc.tokens_used]
    ELSE acc

\* One "# Gate k" block of verify_all applied to the locals acc.
GateBlock(acc, g, enabled, in) ==
    IF enabled[g]
    THEN LET r == RunGate(g, in, acc.tokens_used)
         IN  [passed |-> IF ~r.passed THEN FALSE ELSE acc.passed,
              gate_status |-> acc.gate_status @@ (g :> r.passed),
              failure_reason |->
                  IF ~r.passed /\ acc.failure_reason = "none"
                  THEN r.reason ELSE acc.failure_reason,
              tokens_used |-> IF g \in TokenGates
                              THEN acc.tokens_used + r.tokens
                              ELSE acc.tokens_used]
    ELSE IF g = "perception"
         THEN [acc EXCEPT !.gate_status = @ @@ (g :> TRUE)]  \* Skip if disabled
         ELSE acc

RECURSIVE RunGates(_, _, _, _)
RunGates(k, acc, enabled, in) ==
    IF k > Len(GateOrder) THEN acc
    ELSE RunGates(k + 1, GateBlock(acc, GateOrder[k], enabled, in), enabled, in)

\* Values of gates["effort"].threshold explored: the GateConfig default and
\* the per-task token limit.
ThresholdsExplored == {0, effort_max_tokens}

\* Before the first verify_all call there is no GateResult and no report.
NoResult ==
    [passed |-> FALSE, gate_status |-> << >>, failure_reason |-> "not_run",
     tokens_used |-> 0]
NoInputs ==
    [pytest |-> "missing", coverage_total |-> << >>, lint |-> "missing",
     virtue_available |-> FALSE, virtue_raises |-> FALSE, alignment_pm |-> 994,
     virtue_tokens |-> 0, ethics_available |-> FALSE, ethics_raises |-> FALSE,
     charter_safe |-> FALSE]

\* Whether gate g lets an exception out: _gate_virtue and _gate_ethics catch
\* ImportError only, so an exception raised by the imported scorer or checker
\* leaves the gate; _gate_technical catches the timeout and the missing tool
\* of both subprocesses.
gate_raises(g, in) ==
    \/ g = "virtue" /\ in.virtue_available /\ in.virtue_raises
    \/ g = "ethics" /\ in.ethics_available /\ in.ethics_raises

\* verify_all has no try block: an exception of an enabled gate leaves it.
verify_all_raises(enabled, in) ==
    \E g \in GateNames : enabled[g] /\ gate_raises(g, in)

\* verify_all(task): the GateResult.
verify_all(enabled, in) ==
    RunGates(1, [passed |-> TRUE, gate_status |-> << >>,
                 failure_reason |-> "none", tokens_used |-> 0], enabled, in)

\* ========================================================== HITLController
high_risk_keywords ==
    {"delete", "drop", "truncate", "rm -rf", "production", "deploy", "migrate",
     "rollback", "credentials", "secret", "payment", "billing", "financial",
     "admin", "sudo"}

\* detect_high_risk on a lower-cased word sequence: some keyword occurs in it.
detect_high_risk(text) == \E k \in 1..Len(text) : text[k] \in high_risk_keywords

should_checkpoint_scheduled_before_increment(c) == (c - 1) % check_interval = 0

\* should_checkpoint_scheduled(): the value returned once the counter has
\* been incremented to c.
should_checkpoint_scheduled(c) == c % check_interval = 0

HITLReason ==
    {"high_risk", "major_change", "cost_threshold", "gate_failure", "scheduled",
     "explicit_request"}

\* The reasons and configured timeouts (minutes) explored in SpecHITL.
ReasonsExplored == {"high_risk", "scheduled"}
TimeoutsExplored == {0, 1}

HITLCheckpoint(reason) ==
    [reason |-> reason, status |-> "pending", resolved_by |-> "none",
     notes |-> "none"]

\* Ids a caller may pass to resolve(): every id created so far and one unknown.
KnownIds == 1..(next_id - 1)

NoNotify == [email |-> "none", webhook |-> "none"]

_notify_email_always(email_ok, webhook_ok) ==
    /\ email_calls' = email_calls + 1
    /\ webhook_calls' = webhook_calls + 1
    /\ last_notify' = [email |-> IF email_ok THEN "sent" ELSE "failed",
                       webhook |-> IF webhook_ok THEN "sent" ELSE "failed"]

\* _notify: the email collaborator only when the human is away, the webhook
\* collaborator always; each returns True or False (missing credentials and
\* every exception of the request are turned into False) and _notify drops
\* both results.
_notify(email_ok, webhook_ok) ==
    /\ email_calls' = IF ~stationary THEN email_calls + 1 ELSE email_calls
    /\ webhook_calls' = webhook_calls + 1
    /\ last_notify' = [email |-> IF stationary THEN "skipped"
                                 ELSE IF email_ok THEN "sent" ELSE "failed",
                       webhook |-> IF webhook_ok THEN "sent" ELSE "failed"]

checkpoint_registers_first(reason, blocking) ==
    LET id == next_id
        cp == HITLCheckpoint(reason)
    IN  /\ next_id' = next_id + 1
        /\ pending_checkpoints' = pending_checkpoints \cup {id}
        /\ \E email_ok, webhook_ok \in BOOLEAN : _notify(email_ok, webhook_ok)
        /\ IF reason = "scheduled" /\ auto_approve
           THEN /\ checkpoints' = Append(checkpoints,
                       [cp EXCEPT !.status = "auto_approved", !.notes = "auto"])
                /\ returned' = Append(returned, "auto_approved")
                /\ UNCHANGED waiter
           ELSE /\ checkpoints' = Append(checkpoints, cp)
                /\ IF ~blocking
                   THEN /\ returned' = Append(returned, "pending")
                        /\ UNCHANGED waiter
                   ELSE /\ returned' = Append(returned, "none")
                        /\ waiter' = [id |-> id, state |-> "waiting", elapsed |-> 0]
        /\ UNCHANGED last_resolve

\* checkpoint(task_id, reason, description, context, blocking)
checkpoint(reason, blocking) ==
    LET id == next_id
        cp == HITLCheckpoint(reason)
    IN  /\ next_id' = next_id + 1
        /\ IF reason = "scheduled" /\ auto_approve
           THEN /\ checkpoints' = Append(checkpoints,
                       [cp EXCEPT !.status = "auto_approved", !.notes = "auto"])
                /\ returned' = Append(returned, "auto_approved")
                /\ UNCHANGED <<pending_checkpoints, email_calls, webhook_calls,
                               last_notify, waiter>>
           ELSE /\ checkpoints' = Append(checkpoints, cp)
                /\ pending_checkpoints' = pending_checkpoints \cup {id}
                /\ \E email_ok, webhook_ok \in BOOLEAN : _notify(email_ok, webhook_ok)
                /\ IF ~blocking
                   THEN /\ returned' = Append(returned, "pending")
                        /\ UNCHANGED waiter
                   ELSE \* return await self._wait_for_resolution(checkpoint)
                        /\ returned' = Append(returned, "none")
                        /\ waiter' = [id |-> id, state |-> "waiting", elapsed |-> 0]
        /\ UNCHANGED last_resolve

timeout_seconds_unconverted == timeout_minutes

timeout_seconds == timeout_minutes * SecondsPerMinute

\* One turn of the coroutine _wait_for_resolution(checkpoint): from the loop
\* test to the next await (asyncio.sleep), or to its return.
_wait_for_resolution ==
    LET id == waiter.id
    IN  /\ waiter.state = "waiting"
        /\ IF waiter.elapsed < timeout_seconds
           THEN IF id \notin pending_checkpoints
                THEN /\ returned' = [returned EXCEPT ![id] = checkpoints[id].status]
                     /\ waiter' = [waiter EXCEPT !.state = "returned"]
                     /\ UNCHANGED checkpoints
                ELSE IF checkpoints[id].status # "pending"
                THEN /\ returned' = [returned EXCEPT ![id] = checkpoints[id].status]
                     /\ waiter' = [waiter EXCEPT !.state = "returned"]
                     /\ UNCHANGED checkpoints
                ELSE \* await asyncio.sleep(poll_interval); elapsed += poll_interval
                     /\ waiter' = [waiter EXCEPT !.elapsed = @ + poll_interval]
                     /\ UNCHANGED <<checkpoints, returned>>
           ELSE \* Timeout
                /\ checkpoints' = [checkpoints EXCEPT ![id].status = "timeout",
                                                      ![id].notes = "timeout"]
                /\ returned' = [returned EXCEPT ![id] = "timeout"]
                /\ waiter' = [waiter EXCEPT !.state = "returned"]
        /\ UNCHANGED <<pending_checkpoints, next_id, email_calls, webhook_calls,
                       last_resolve, last_notify>>

resolve_keeps_entry(id, approved) ==
    IF id \notin pending_checkpoints
    THEN /\ last_resolve' = [id |-> id, approved |-> approved, result |-> "none"]
         /\ UNCHANGED <<checkpoints, pending_checkpoints>>
    ELSE /\ checkpoints' = [checkpoints EXCEPT
                               ![id].status = IF approved THEN "approved" ELSE "rejected",
                               ![id].resolved_by = "human",
                               ![id].notes = "human"]
         /\ pending_checkpoints' = pending_checkpoints
         /\ last_resolve' = [id |-> id, approved |-> approved, result |-> "record"]

\* resolve(checkpoint_id, approved, notes, resolved_by)
resolve(id, approved) ==
    IF id \notin pending_checkpoints
    THEN /\ last_resolve' = [id |-> id, approved |-> approved, result |-> "none"]
         /\ UNCHANGED <<checkpoints, pending_checkpoints>>
    ELSE /\ checkpoints' = [checkpoints EXCEPT
                               ![id].status = IF approved THEN "approved" ELSE "rejected",
                               ![id].resolved_by = "human",
                               ![id].notes = "human"]
         /\ pending_checkpoints' = pending_checkpoints \ {id}
         /\ last_resolve' = [id |-> id, approved |-> approved, result |-> "record"]

\* The statuses a blocking HIGH_RISK checkpoint() can return to run()
\* (SpecHITL reaches each of them; AUTO_APPROVED needs reason SCHEDULED).
\* Spec takes the call by its return value; the controller's own state
\* during the wait is the subject of SpecHITL.
BlockingHighRiskReturns == {"approved", "rejected", "timeout"}

\* ================================================================== Engine
\* The methods StateManager defines.
StateManagerMethods ==
    {"initialize_from_prd", "get_next_task", "get_task", "mark_complete",
     "mark_failed", "log_retry", "is_complete", "get_progress_percentage",
     "get_current_task_path", "get_summary"}

\* The text run() hands to detect_high_risk.
risk_text(t) == IF hasattr("description") THEN t.description ELSE t.title

\* _apply_effort: foster, develop, hone are what the execution collaborator
\* would answer for the three phases.  Building the FOSTER prompt reads
\* task.description; on a TaskState that raises AttributeError inside the
\* try block, which the except clause turns into False before any call.
_apply_effort(foster, develop, hone) ==
    IF ~hasattr("description") THEN [success |-> FALSE, calls |-> 0, failed |-> FALSE]
    ELSE IF ~foster THEN [success |-> FALSE, calls |-> 1, failed |-> TRUE]
    ELSE IF ~develop THEN [success |-> FALSE, calls |-> 2, failed |-> TRUE]
    ELSE [success |-> TRUE, calls |-> 3, failed |-> ~hone]

_handle_success(ts, i) == mark_complete(ts, ts[i].id)

_handle_gate_failure(ts, i, maxr) ==
    IF ts[i].retry_count < maxr
    THEN log_retry(ts, ts[i].id, "gate")
    ELSE mark_failed(ts, ts[i].id)

_handle_execution_failure(ts, i, maxr) ==
    IF ts[i].retry_count < maxr
    THEN log_retry(ts, ts[i].id, "Execution exception")
    ELSE mark_failed(ts, ts[i].id)

\* _append_ledger: one line appended to the ledger file (its action field).
_append_ledger(l, action) == Append(l, action)

\* The ledger after each outcome handler.
_handle_success_ledger(l) == _append_ledger(l, "TASK_COMPLETE")

_handle_gate_failure_ledger(l, ts, i, maxr) ==
    IF ts[i].retry_count < maxr
    THEN _append_ledger(l, "GATE_FAILURE")
    ELSE l

_handle_execution_failure_ledger(l, ts, i, maxr) == l

\* The verdict of the gate battery for the next verify_all call on task i.
GatesPass(i) == gate_runs[i] >= gate_plan[i]

\* while not is_complete(): task = get_next_task(); if task is None: break
SelectTask ==
    /\ pc = "loop"
    /\ IF is_complete(tasks)
       THEN /\ pc' = "finalize"
            /\ exit_reason' = "complete"
            /\ UNCHANGED <<tasks, current, store, store_torn>>
       ELSE IF FirstPending(tasks) = NoTask
       THEN /\ pc' = "finalize"
            /\ exit_reason' = "no_task"
            /\ UNCHANGED <<tasks, current, store, store_torn>>
       ELSE /\ current' = FirstPending(tasks)
            /\ tasks' = get_next_task(tasks)
            /\ store' = _save(tasks')
            /\ store_torn' = FALSE
            /\ pc' = "hitl"
            /\ UNCHANGED exit_reason
    /\ UNCHANGED <<max_retries, run_result, current_tokens, distillations,
                   gate_plan, gate_runs, exec_calls, attempts, collab_failed,
                   hitl_requested, exhausted, hitl_status, sm_call, hitlVars,
                   gateVars, mainVars, tcVars>>

\* 0. HITL CHECK: a high-risk task waits for a blocking checkpoint.
HitlCheck ==
    /\ pc = "hitl"
    /\ IF detect_high_risk(risk_text(tasks[current]))
       THEN /\ hitl_requested' = TRUE
            /\ \E status \in BlockingHighRiskReturns :
                 /\ hitl_status' = status
                 /\ IF status = "rejected"
                    THEN IF "mark_skipped" \in StateManagerMethods
                         THEN /\ pc' = "loop"
                              /\ exit_reason' = exit_reason
                         ELSE \* AttributeError leaves run() through the caller
                              /\ pc' = "crashed"
                              /\ exit_reason' = "exception"
                    ELSE IF status = "timeout"
                    THEN /\ pc' = "finalize"
                         /\ exit_reason' = "hitl_timeout"
                    ELSE /\ pc' = "budget"
                         /\ exit_reason' = exit_reason
       ELSE /\ pc' = "budget"
            /\ UNCHANGED <<hitl_requested, exit_reason, hitl_status>>
    /\ UNCHANGED <<tasks, max_retries, current, run_result, current_tokens,
                   distillations, gate_plan, gate_runs, exec_calls, attempts,
                   collab_failed, exhausted, smVars, hitlVars, gateVars, mainVars, tcVars>>

_should_distill_at_threshold ==
    should_distill_at_threshold(TokenCounter(current_tokens, context_buffer),
                                max_tokens, distill_threshold_pct)

\* 1. CONTEXT CHECK: _should_distill / _perform_distillation.
_should_distill ==
    should_distill(TokenCounter(current_tokens, context_buffer), max_tokens,
                   distill_threshold_pct)

BudgetCheck ==
    /\ pc = "budget"
    /\ IF _should_distill
       THEN \E n \in SummaryLens :
              LET d == distill(distillation_count)
                  c == reset_with_summary(TokenCounter(current_tokens, context_buffer),
                                          Text(n))
              IN  /\ distillation_count' = d.distillation_count
                  /\ summaries' = Append(summaries, [header |-> d.header, saved |-> TRUE])
                  /\ current_tokens' = c.current_tokens
                  /\ context_buffer' = c.context_buffer
                  /\ distillations' = distillations + 1
                  /\ ledger' = _append_ledger(ledger, "DISTILLATION")
       ELSE UNCHANGED <<current_tokens, context_buffer, distillation_count,
                        summaries, distillations, ledger>>
    /\ pc' = "effort"
    /\ UNCHANGED <<tasks, max_retries, current, exit_reason, run_result,
                   gate_plan, gate_runs, exec_calls, attempts, collab_failed,
                   hitl_requested, exhausted, hitl_status, smVars, hitlVars,
                   gateVars, exit_code, max_tokens, tc_call>>

\* 2. EFFORT APPLICATION and 3. VERIFICATION with the outcome handlers.
EffortAndVerify ==
    /\ pc = "effort"
    /\ \E foster, develop, hone \in BOOLEAN :
         LET r == _apply_effort(foster, develop, hone)
             ts1 == IF r.success
                    THEN IF GatesPass(current)
                         THEN _handle_success(tasks, current)
                         ELSE _handle_gate_failure(tasks, current, max_retries)
                    ELSE _handle_execution_failure(tasks, current, max_retries)
         IN  /\ tasks' = ts1
             /\ store' = saved_if_found(ts1, tasks[current].id, store)
             /\ store_torn' = torn_if_found(ts1, tasks[current].id, store_torn)
             /\ ledger' = IF r.success
                          THEN IF GatesPass(current)
                               THEN _handle_success_ledger(ledger)
                               ELSE _handle_gate_failure_ledger(ledger, tasks, current,
                                                                max_retries)
                          ELSE _handle_execution_failure_ledger(ledger, tasks, current,
                                                                max_retries)
             /\ exec_calls' = [exec_calls EXCEPT ![current] = @ + r.calls]
             /\ attempts' = [attempts EXCEPT ![current] = @ + 1]
             /\ collab_failed' = (collab_failed \/ r.failed)
             /\ gate_runs' = IF r.success
                             THEN [gate_runs EXCEPT ![current] = @ + 1]
                             ELSE gate_runs
             /\ exhausted' = IF ts1[current].status = "failed"
                             THEN exhausted \cup {current} ELSE exhausted
    /\ pc' = "scheduled"
    /\ UNCHANGED <<max_retries, current, exit_reason, run_result,
                   current_tokens, distillations, gate_plan, hitl_requested,
                   hitl_status, sm_call, hitlVars, gateVars, exit_code, tcVars>>

\* 4. SCHEDULED HITL CHECK: every check_interval-th iteration makes a
\* non-blocking SCHEDULED checkpoint, whose return value run() ignores; then
\* _update_visuals, and back to the loop condition.
ScheduledCheck ==
    /\ pc = "scheduled"
    /\ task_counter' = task_counter + 1
    /\ IF should_checkpoint_scheduled(task_counter + 1)
       THEN checkpoint("scheduled", FALSE)
       ELSE UNCHANGED <<checkpoints, pending_checkpoints, next_id, waiter,
                        returned, email_calls, webhook_calls, last_resolve,
                        last_notify>>
    /\ pc' = "loop"
    /\ UNCHANGED <<engineVars_but_pc, smVars, auto_approve, timeout_minutes,
                   stationary, gateVars, mainVars, tcVars>>

Finalize_returns_true ==
    /\ pc = "finalize"
    /\ run_result' = "true"
    /\ pc' = "done"
    /\ ledger' = _append_ledger(ledger, "LOOP_COMPLETE")
    /\ UNCHANGED <<tasks, max_retries, current, exit_reason, current_tokens,
                   distillations, gate_plan, gate_runs, exec_calls, attempts,
                   collab_failed, hitl_requested, exhausted, hitl_status,
                   smVars, hitlVars, gateVars, exit_code, tcVars>>

\* _finalize(); return self.state.is_complete()
Finalize ==
    /\ pc = "finalize"
    /\ run_result' = IF is_complete(tasks) THEN "true" ELSE "false"
    /\ pc' = "done"
    /\ ledger' = _append_ledger(ledger, "LOOP_COMPLETE")
    /\ UNCHANGED <<tasks, max_retries, current, exit_reason, current_tokens,
                   distillations, gate_plan, gate_runs, exec_calls, attempts,
                   collab_failed, hitl_requested, exhausted, hitl_status,
                   smVars, hitlVars, gateVars, exit_code, tcVars>>

\* main(): sys.exit(0 if success else 1); an exception run() let through
\* ends the process with the interpreter's status for an uncaught exception.
UncaughtExceptionStatus == <<1>>

Exit ==
    /\ pc \in {"done", "crashed"}
    /\ exit_code' = IF pc = "crashed" THEN UncaughtExceptionStatus
                    ELSE IF run_result = "true" THEN <<0>> ELSE <<1>>
    /\ pc' = "exited"
    /\ UNCHANGED <<engineVars_but_pc, ledger, smVars, hitlVars, gateVars, tcVars>>

\* main(): except KeyboardInterrupt: sys.exit(130), for an interrupt that
\* arrives while run() is executing.
Interrupt ==
    /\ pc \in {"loop", "hitl", "budget", "effort", "scheduled", "finalize", "done"}
    /\ exit_code' = <<130>>
    /\ exit_reason' = "interrupt"
    /\ pc' = "exited"
    /\ UNCHANGED <<tasks, max_retries, current, run_result, current_tokens,
                   distillations, gate_plan, gate_runs, exec_calls, attempts,
                   collab_failed, hitl_requested, exhausted, hitl_status,
                   ledger, smVars, hitlVars, gateVars, tcVars>>

\* Ctrl-C while a StateManager mutation of run() is inside _save: the task
\* object is already changed in memory, the file is cut short, and the
\* KeyboardInterrupt leaves run() for main(), which exits 130. The handlers
\* write their ledger line after the mutation, so none is written.
InterruptDuringSave ==
    /\ \/ /\ pc = "loop"
          /\ ~is_complete(tasks)
          /\ FirstPending(tasks) # NoTask
          /\ tasks' = get_next_task(tasks)
          /\ UNCHANGED <<exec_calls, attempts, collab_failed, gate_runs>>
       \/ /\ pc = "effort"
          /\ \E r \in {_apply_effort(foster, develop, hone) :
                         foster, develop, hone \in BOOLEAN} :
                   /\ tasks' = IF r.success
                               THEN IF GatesPass(current)
                                    THEN _handle_success(tasks, current)
                                    ELSE _handle_gate_failure(tasks, current,
                                                              max_retries)
                               ELSE _handle_execution_failure(tasks, current,
                                                              max_retries)
                   /\ exec_calls' = [exec_calls EXCEPT ![current] = @ + r.calls]
                   /\ attempts' = [attempts EXCEPT ![current] = @ + 1]
                   /\ collab_failed' = (collab_failed \/ r.failed)
                   /\ gate_runs' = IF r.success
                                   THEN [gate_runs EXCEPT ![current] = @ + 1]
                                   ELSE gate_runs
    /\ store' \in TornSaves(tasks')
    /\ store_torn' = TRUE
    /\ exit_code' = <<130>>
    /\ exit_reason' = "interrupt"
    /\ pc' = "exited"
    /\ UNCHANGED <<max_retries, current, run_result, current_tokens,
                   distillations, gate_plan, hitl_requested, exhausted,
                   hitl_status, ledger, sm_call, hitlVars, gateVars, tcVars>>

\* ------------------------------------------------ SpecHITL: the controller
\* The callers are single control loops: a blocking call is awaited before
\* the next checkpoint() call is made (run_until_complete in run()).
Checkpoint ==
    /\ next_id <= MaxCheckpoints
    /\ waiter.state # "waiting"
    /\ \E reason \in ReasonsExplored, blocking \in BOOLEAN :
         checkpoint(reason, blocking)
    /\ UNCHANGED <<task_counter, auto_approve, timeout_minutes, stationary,
                   engineVars, smVars, gateVars, mainVars, tcVars>>

WaitForResolution ==
    /\ _wait_for_resolution
    /\ UNCHANGED <<task_counter, auto_approve, timeout_minutes, stationary,
                   engineVars, smVars, gateVars, mainVars, tcVars>>

Resolve ==
    /\ \E id \in 1..next_id, approved \in BOOLEAN : resolve(id, approved)
    /\ UNCHANGED <<task_counter, next_id, auto_approve, timeout_minutes,
                   stationary, waiter, returned, email_calls, webhook_calls,
                   last_notify, engineVars, smVars, gateVars, mainVars, tcVars>>

\* ---------------------------------------------------------- initial states
EngineIdle ==
    /\ tasks = << >>
    /\ max_retries = 0
    /\ pc = "idle"
    /\ current = NoTask
    /\ exit_reason = "none"
    /\ run_result = "none"
    /\ current_tokens = 0
    /\ distillations = 0
    /\ gate_plan = << >>
    /\ gate_runs = << >>
    /\ exec_calls = << >>
    /\ attempts = << >>
    /\ collab_failed = FALSE
    /\ hitl_requested = FALSE
    /\ exhausted = {}
    /\ hitl_status = "none"
    /\ ledger = << >>
    /\ exit_code = << >>
    /\ store = << >>
    /\ store_torn = FALSE
    /\ sm_call = NoCall

\* HITLController.__init__ with the module configuration read from the
\* environment.
HITLControllerInit(autos, timeouts, stations) ==
    /\ task_counter = 0
    /\ checkpoints = << >>
    /\ pending_checkpoints = {}
    /\ next_id = 1
    /\ auto_approve \in autos
    /\ timeout_minutes \in timeouts
    /\ stationary \in stations
    /\ waiter = [id |-> 0, state |-> "idle", elapsed |-> 0]
    /\ returned = << >>
    /\ email_calls = 0
    /\ webhook_calls = 0
    /\ last_resolve = [id |-> 0, approved |-> FALSE, result |-> "none"]
    /\ last_notify = NoNotify

\* TokenCounter(max_tokens) and RLMDistiller() as ChickenHawk.__init__ builds them.
TokensIdle ==
    /\ context_buffer = << >>
    /\ max_tokens = max_window_tokens
    /\ distillation_count = 0
    /\ summaries = << >>
    /\ tc_call = NoTcCall

GatesIdle ==
    /\ gates_enabled = DefaultGates
    /\ gate_inputs = NoInputs
    /\ effort_threshold = 0
    /\ gate_result = NoResult
    /\ gate_raised = FALSE

\* A plan of n pending tasks, retry counts 0, and a fresh Engine.
Init ==
    /\ \E n \in 0..MaxTasks : \E titles \in [1..n -> Titles] :
         tasks = [i \in 1..n |-> TaskState(i, titles[i])]
    /\ max_retries \in 0..MaxRetriesCfg
    /\ pc = "loop"
    /\ current = NoTask
    /\ exit_reason = "none"
    /\ run_result = "none"
    /\ current_tokens = 0
    /\ distillations = 0
    /\ gate_plan \in [1..Len(tasks) -> 0..(MaxRetriesCfg + 1)]
    /\ gate_runs = [i \in 1..Len(tasks) |-> 0]
    /\ exec_calls = [i \in 1..Len(tasks) |-> 0]
    /\ attempts = [i \in 1..Len(tasks) |-> 0]
    /\ collab_failed = FALSE
    /\ hitl_requested = FALSE
    /\ exhausted = {}
    /\ hitl_status = "none"
    /\ ledger = _append_ledger(<< >>, "HARNESS_BOOT")
    /\ exit_code = << >>
    /\ store = _save(tasks)
    /\ store_torn = FALSE
    /\ sm_call = NoCall
    /\ HITLControllerInit({TRUE}, {0}, {TRUE})
    /\ GatesIdle
    /\ TokensIdle

Next ==
    \/ SelectTask
    \/ HitlCheck
    \/ BudgetCheck
    \/ EffortAndVerify
    \/ ScheduledCheck
    \/ Finalize
    \/ Exit
    \/ Interrupt
    \/ InterruptDuringSave

Spec == Init /\ [][Next]_vars

\* --------------------------- SpecLive: a run that is left to run to its end
\* The steps of run() and main() when no interrupt arrives.  Every call the
\* steps make returns, so a step that is enabled is eventually taken.
NextRun ==
    \/ SelectTask
    \/ HitlCheck
    \/ BudgetCheck
    \/ EffortAndVerify
    \/ ScheduledCheck
    \/ Finalize
    \/ Exit

SpecLive == Init /\ [][NextRun]_vars /\ WF_vars(NextRun)

\* ----------------------------- SpecWarm: a run that starts with context held
\* The contexts the TokenCounter holds when run() is called, for a configured
\* window (max_window_tokens) of 10 tokens: 70% of the window exactly, and
\* one token more.
WarmContexts == {Text(28), Text(32)}

\* A ChickenHawk whose TokenCounter was fed one text before run(): plans of at
\* least one pending task, the gates passing on the first verification.
InitWarm ==
    /\ \E n \in 1..MaxTasks : \E titles \in [1..n -> Titles] :
         tasks = [i \in 1..n |-> TaskState(i, titles[i])]
    /\ max_retries \in {0, 1}
    /\ pc = "loop"
    /\ current = NoTask
    /\ exit_reason = "none"
    /\ run_result = "none"
    /\ max_tokens = 10
    /\ \E text \in WarmContexts :
         LET c == add(TokenCounter(0, << >>), text)
         IN  /\ current_tokens = c.current_tokens
             /\ context_buffer = c.context_buffer
    /\ distillation_count = 0
    /\ summaries = << >>
    /\ tc_call = NoTcCall
    /\ distillations = 0
    /\ gate_plan = [i \in 1..Len(tasks) |-> 0]
    /\ gate_runs = [i \in 1..Len(tasks) |-> 0]
    /\ exec_calls = [i \in 1..Len(tasks) |-> 0]
    /\ attempts = [i \in 1..Len(tasks) |-> 0]
    /\ collab_failed = FALSE
    /\ hitl_requested = FALSE
    /\ exhausted = {}
    /\ hitl_status = "none"
    /\ ledger = _append_ledger(<< >>, "HARNESS_BOOT")
    /\ exit_code = << >>
    /\ store = _save(tasks)
    /\ store_torn = FALSE
    /\ sm_call = NoCall
    /\ HITLControllerInit({TRUE}, {0}, {TRUE})
    /\ gates_enabled = DefaultGates
    /\ gate_inputs = NoInputs
    /\ effort_threshold = 0
    /\ gate_result = NoResult
    /\ gate_raised = FALSE

SpecWarm == InitWarm /\ [][Next]_vars

\* ------------------------------------- SpecRestart: main() started again
\* The HARNESS_BOOT lines of the ledger count the processes started so far.
BootLines(l) == Cardinality({i \in 1..Len(l) : l[i] = "HARNESS_BOOT"})

\* main() run again on the same state file and ledger after the process has
\* ended: StateManager.__init__ loads the file (json.load raises on a file
\* that is cut short, outside main()'s try), every other collaborator is
\* built anew, _log_boot appends to the ledger, and run() starts.
StartAgain ==
    /\ pc = "exited"
    /\ BootLines(ledger) <= MaxRestarts
    /\ IF store_torn
       THEN /\ exit_code' = UncaughtExceptionStatus
            /\ UNCHANGED <<engineVars, ledger, hitlVars, tcVars>>
       ELSE /\ tasks' = _load(store)
            /\ pc' = "loop"
            /\ current' = NoTask
            /\ exit_reason' = "none"
            /\ run_result' = "none"
            /\ exit_code' = << >>
            /\ ledger' = _append_ledger(ledger, "HARNESS_BOOT")
            /\ current_tokens' = 0
            /\ distillations' = 0
            /\ context_buffer' = << >>
            /\ distillation_count' = 0
            /\ summaries' = << >>
            /\ collab_failed' = FALSE
            /\ hitl_requested' = FALSE
            /\ exhausted' = {}
            /\ hitl_status' = "none"
            /\ task_counter' = 0
            /\ checkpoints' = << >>
            /\ pending_checkpoints' = {}
            /\ next_id' = 1
            /\ waiter' = [id |-> 0, state |-> "idle", elapsed |-> 0]
            /\ returned' = << >>
            /\ email_calls' = 0
            /\ webhook_calls' = 0
            /\ last_resolve' = [id |-> 0, approved |-> FALSE, result |-> "none"]
            /\ last_notify' = NoNotify
            /\ UNCHANGED <<max_retries, gate_plan, gate_runs, exec_calls, attempts,
                           auto_approve, timeout_minutes, stationary,
                           max_tokens, tc_call>>
    /\ UNCHANGED <<smVars, gateVars>>

\* ChickenHawk.__init__ on a state file an earlier process left: each task
\* in any TaskStatus.
InitRestart ==
    /\ \E n \in 1..MaxTasks : \E st \in [1..n -> TaskStatus] :
         tasks = [i \in 1..n |->
                    [TaskState(i, <<"write", "a", "haiku">>) EXCEPT !.status = st[i]]]
    /\ max_retries \in {0, 1}
    /\ pc = "loop"
    /\ current = NoTask
    /\ exit_reason = "none"
    /\ run_result = "none"
    /\ current_tokens = 0
    /\ distillations = 0
    /\ gate_plan = [i \in 1..Len(tasks) |-> 0]
    /\ gate_runs = [i \in 1..Len(tasks) |-> 0]
    /\ exec_calls = [i \in 1..Len(tasks) |-> 0]
    /\ attempts = [i \in 1..Len(tasks) |-> 0]
    /\ collab_failed = FALSE
    /\ hitl_requested = FALSE
    /\ exhausted = {}
    /\ hitl_status = "none"
    /\ ledger = _append_ledger(<< >>, "HARNESS_BOOT")
    /\ exit_code = << >>
    /\ store = _save(tasks)
    /\ store_torn = FALSE
    /\ sm_call = NoCall
    /\ HITLControllerInit({TRUE}, {0}, {TRUE})
    /\ GatesIdle
    /\ TokensIdle

NextRestart ==
    \/ Next
    \/ StartAgain

SpecRestart == InitRestart /\ [][NextRestart]_vars

\* ------------------------------------------- SpecGates: the gate battery
\* verify_all keeps no state between calls: one call per configuration.
VerifyAll ==
    /\ gate_result = NoResult
    /\ ~gate_raised
    /\ \E in \in GateInputs :
         /\ gate_inputs' = in
         /\ IF verify_all_raises(gates_enabled, in)
            THEN gate_raised' = TRUE /\ UNCHANGED gate_result
            ELSE gate_result' = verify_all(gates_enabled, in) /\ UNCHANGED gate_raised
    /\ UNCHANGED <<gates_enabled, effort_threshold, engineVars, smVars, hitlVars, mainVars, tcVars>>

\* _load_config: each gate's enabled flag comes from the configuration file.
LoadConfig ==
    /\ gate_result = NoResult
    /\ ~gate_raised
    /\ \/ /\ \E g \in GateNames :
               gates_enabled' = [gates_enabled EXCEPT ![g] = ~@]
          /\ UNCHANGED effort_threshold
       \/ /\ effort_threshold' \in ThresholdsExplored
          /\ UNCHANGED gates_enabled
    /\ UNCHANGED <<gate_inputs, gate_result, gate_raised, engineVars, smVars, hitlVars, mainVars, tcVars>>

InitGates ==
    /\ EngineIdle
    /\ HITLControllerInit({TRUE}, {0}, {TRUE})
    /\ GatesIdle
    /\ TokensIdle

NextGates ==
    \/ LoadConfig
    \/ VerifyAll

SpecGates == InitGates /\ [][NextGates]_vars

InitHITL ==
    /\ EngineIdle
    /\ HITLControllerInit(BOOLEAN, TimeoutsExplored, BOOLEAN)
    /\ GatesIdle
    /\ TokensIdle

NextHITL ==
    \/ Checkpoint
    \/ WaitForResolution
    \/ Resolve

SpecHITL == InitHITL /\ [][NextHITL]_vars

\* ------------------------------- SpecTC: a TokenCounter and an RLMDistiller
\* What the token and distillation actions leave alone.
notTokenVars == <<tasks, max_retries, pc, current, exit_reason, run_result,
                  distillations, gate_plan, gate_runs, exec_calls, attempts, collab_failed,
                  hitl_requested, exhausted, hitl_status, mainVars, smVars,
                  hitlVars, gateVars>>

\* add(text), the buffers explored stopping at MaxBufferLen characters.
Add ==
    /\ \E text \in Texts :
         /\ Len(context_buffer) + Len(text) <= MaxBufferLen
         /\ LET c == add(TokenCounter(current_tokens, context_buffer), text)
            IN  /\ current_tokens' = c.current_tokens
                /\ context_buffer' = c.context_buffer
                /\ tc_call' = [NoTcCall EXCEPT !.op = "add", !.text = text,
                                               !.ret = c.current_tokens]
    /\ UNCHANGED <<notTokenVars, max_tokens, distillation_count, summaries>>

Reset ==
    /\ LET c == reset(TokenCounter(current_tokens, context_buffer))
       IN  /\ current_tokens' = c.current_tokens
           /\ context_buffer' = c.context_buffer
    /\ tc_call' = [NoTcCall EXCEPT !.op = "reset"]
    /\ UNCHANGED <<notTokenVars, max_tokens, distillation_count, summaries>>

ResetWithSummary ==
    /\ \E summary \in Texts :
         LET c == reset_with_summary(TokenCounter(current_tokens, context_buffer),
                                     summary)
         IN  /\ current_tokens' = c.current_tokens
             /\ context_buffer' = c.context_buffer
             /\ tc_call' = [NoTcCall EXCEPT !.op = "reset_with_summary",
                                            !.text = summary]
    /\ UNCHANGED <<notTokenVars, max_tokens, distillation_count, summaries>>

GetUsageRatio ==
    /\ tc_call' = [NoTcCall EXCEPT
                     !.op = "get_usage_ratio",
                     !.usage = get_usage_ratio(
                                  TokenCounter(current_tokens, context_buffer),
                                  max_tokens)]
    /\ UNCHANGED <<notTokenVars, current_tokens, context_buffer, max_tokens,
                   distillation_count, summaries>>

ShouldDistill ==
    /\ \E threshold \in DistillThresholds :
         tc_call' = [NoTcCall EXCEPT
                       !.op = "should_distill",
                       !.threshold = threshold,
                       !.ok = should_distill(
                                 TokenCounter(current_tokens, context_buffer),
                                 max_tokens, threshold)]
    /\ UNCHANGED <<notTokenVars, current_tokens, context_buffer, max_tokens,
                   distillation_count, summaries>>

\* distill(current_context): the counter is incremented first; writing the
\* summary file (_save_distillation) succeeds or raises OSError.
Distill ==
    /\ Len(summaries) < MaxDistills
    /\ \E context \in Texts, saved \in BOOLEAN :
         LET d == distill(distillation_count)
         IN  /\ distillation_count' = d.distillation_count
             /\ summaries' = Append(summaries, [header |-> d.header, saved |-> saved])
             /\ tc_call' = [NoTcCall EXCEPT !.op = "distill", !.text = context,
                                            !.ok = saved]
    /\ UNCHANGED <<notTokenVars, current_tokens, context_buffer, max_tokens>>

\* TokenCounter(max_tokens) and RLMDistiller() just constructed.
InitTC ==
    /\ EngineIdle
    /\ HITLControllerInit({TRUE}, {0}, {TRUE})
    /\ gates_enabled = DefaultGates
    /\ gate_inputs = NoInputs
    /\ effort_threshold = 0
    /\ gate_result = NoResult
    /\ gate_raised = FALSE
    /\ context_buffer = << >>
    /\ max_tokens \in MaxTokensExplored
    /\ distillation_count = 0
    /\ summaries = << >>
    /\ tc_call = NoTcCall

NextTC ==
    \/ Add
    \/ Reset
    \/ ResetWithSummary
    \/ GetUsageRatio
    \/ ShouldDistill
    \/ Distill

SpecTC == InitTC /\ [][NextTC]_vars

\* --------------------------------------------- SpecSM: the StateManager
\* A StateManager on a state file, driven by any sequence of its methods.
\* Task ids are drawn from 1..MaxTasks; UnknownId is no task's id.
UnknownId == MaxTasks + 1

\* PRDs of at most MaxTasks lines.
Prds == UNION {[1..n -> PrdLines] : n \in 0..MaxTasks}

\* ------------------------- SpecPrd: a run on a plan parsed from a PRD
\* ChickenHawk.__init__ on the state file that initialize_from_prd wrote for
\* a PRD (python state_manager.py init <prd>), run() not yet started.
InitPrd ==
    /\ \E prd \in Prds : tasks = initialize_from_prd(prd)
    /\ max_retries \in {0, 1}
    /\ pc = "loop"
    /\ current = NoTask
    /\ exit_reason = "none"
    /\ run_result = "none"
    /\ current_tokens = 0
    /\ distillations = 0
    /\ gate_plan = [i \in 1..Len(tasks) |-> 0]
    /\ gate_runs = [i \in 1..Len(tasks) |-> 0]
    /\ exec_calls = [i \in 1..Len(tasks) |-> 0]
    /\ attempts = [i \in 1..Len(tasks) |-> 0]
    /\ collab_failed = FALSE
    /\ hitl_requested = FALSE
    /\ exhausted = {}
    /\ hitl_status = "none"
    /\ ledger = _append_ledger(<< >>, "HARNESS_BOOT")
    /\ exit_code = << >>
    /\ store = _save(tasks)
    /\ store_torn = FALSE
    /\ sm_call = NoCall
    /\ HITLControllerInit({TRUE}, {0}, {TRUE})
    /\ GatesIdle
    /\ TokensIdle

SpecPrd == InitPrd /\ [][Next]_vars

\* initialize_from_prd(prd_path): parse, replace the plan, persist.  The
\* harness initialises a plan once, on a StateManager just constructed.
InitializeFromPrd ==
    /\ sm_call = NoCall
    /\ \E prd \in Prds : tasks' = initialize_from_prd(prd)
    /\ store' = _save(tasks')
    /\ store_torn' = FALSE
    /\ sm_call' = [NoCall EXCEPT !.op = "initialize_from_prd"]
    /\ UNCHANGED <<max_retries, pc, current, exit_reason, run_result,
                   current_tokens, distillations, gate_plan, gate_runs,
                   exec_calls, attempts, collab_failed, hitl_requested, exhausted,
                   hitl_status, hitlVars, gateVars, mainVars, tcVars>>

GetNextTask ==
    /\ tasks' = get_next_task(tasks)
    /\ store' = IF FirstPending(tasks) # NoTask THEN _save(tasks') ELSE store
    /\ store_torn' = IF FirstPending(tasks) # NoTask THEN FALSE ELSE store_torn
    /\ sm_call' = [NoCall EXCEPT !.op = "get_next_task",
                                 !.task = FirstPending(tasks)]
    /\ UNCHANGED <<max_retries, pc, current, exit_reason, run_result,
                   current_tokens, distillations, gate_plan, gate_runs,
                   exec_calls, attempts, collab_failed, hitl_requested, exhausted,
                   hitl_status, hitlVars, gateVars, mainVars, tcVars>>

MarkComplete ==
    /\ \E id \in 1..UnknownId :
         /\ tasks' = mark_complete(tasks, id)
         /\ store' = saved_if_found(tasks', id, store)
         /\ store_torn' = torn_if_found(tasks', id, store_torn)
         /\ sm_call' = [NoCall EXCEPT !.op = "mark_complete", !.id = id]
    /\ UNCHANGED <<max_retries, pc, current, exit_reason, run_result,
                   current_tokens, distillations, gate_plan, gate_runs,
                   exec_calls, attempts, collab_failed, hitl_requested, exhausted,
                   hitl_status, hitlVars, gateVars, mainVars, tcVars>>

MarkFailed ==
    /\ \E id \in 1..UnknownId :
         /\ tasks' = mark_failed(tasks, id)
         /\ store' = saved_if_found(tasks', id, store)
         /\ store_torn' = torn_if_found(tasks', id, store_torn)
         /\ sm_call' = [NoCall EXCEPT !.op = "mark_failed", !.id = id]
    /\ UNCHANGED <<max_retries, pc, current, exit_reason, run_result,
                   current_tokens, distillations, gate_plan, gate_runs,
                   exec_calls, attempts, collab_failed, hitl_requested, exhausted,
                   hitl_status, hitlVars, gateVars, mainVars, tcVars>>

\* The retry counts explored stop at MaxLogRetries.
LogRetry ==
    /\ \E id \in 1..UnknownId, reason \in RetryReasons :
         /\ get_task(tasks, id) # NoTask =>
               tasks[get_task(tasks, id)].retry_count < MaxLogRetries
         /\ tasks' = log_retry(tasks, id, reason)
         /\ store' = saved_if_found(tasks', id, store)
         /\ store_torn' = torn_if_found(tasks', id, store_torn)
         /\ sm_call' = [NoCall EXCEPT !.op = "log_retry", !.id = id,
                                      !.reason = reason]
    /\ UNCHANGED <<max_retries, pc, current, exit_reason, run_result,
                   current_tokens, distillations, gate_plan, gate_runs,
                   exec_calls, attempts, collab_failed, hitl_requested, exhausted,
                   hitl_status, hitlVars, gateVars, mainVars, tcVars>>

IsComplete ==
    /\ sm_call' = [NoCall EXCEPT !.op = "is_complete", !.ok = is_complete(tasks)]
    /\ UNCHANGED <<tasks, store, store_torn, max_retries, pc, current, exit_reason,
                   run_result, current_tokens, distillations, gate_plan,
                   gate_runs, exec_calls, attempts, collab_failed, hitl_requested,
                   exhausted, hitl_status, hitlVars, gateVars, mainVars, tcVars>>

\* A restart: a new StateManager on the same state file (_load_or_create).
Restart ==
    /\ tasks' = _load(store)
    /\ sm_call' = [NoCall EXCEPT !.op = "_load"]
    /\ UNCHANGED <<store, store_torn, max_retries, pc, current, exit_reason,
                   run_result, current_tokens, distillations, gate_plan,
                   gate_runs, exec_calls, attempts, collab_failed, hitl_requested,
                   exhausted, hitl_status, hitlVars, gateVars, mainVars, tcVars>>

\* StateManager.__init__ on an existing state file written by an earlier
\* process: any plan of at most MaxTasks tasks, each in any TaskStatus.
InitSM ==
    /\ \E n \in 0..MaxTasks : \E st \in [1..n -> TaskStatus] :
         store = _save([i \in 1..n |->
                    [TaskState(i, <<"write", "a", "haiku">>) EXCEPT !.status = st[i]]])
    /\ store_torn = FALSE
    /\ tasks = _load(store)
    /\ sm_call = NoCall
    /\ max_retries = 0
    /\ pc = "idle"
    /\ current = NoTask
    /\ exit_reason = "none"
    /\ run_result = "none"
    /\ current_tokens = 0
    /\ distillations = 0
    /\ gate_plan = << >>
    /\ gate_runs = << >>
    /\ exec_calls = << >>
    /\ attempts = << >>
    /\ collab_failed = FALSE
    /\ hitl_requested = FALSE
    /\ exhausted = {}
    /\ hitl_status = "none"
    /\ ledger = << >>
    /\ exit_code = << >>
    /\ HITLControllerInit({TRUE}, {0}, {TRUE})
    /\ GatesIdle
    /\ TokensIdle

NextSM ==
    \/ InitializeFromPrd
    \/ GetNextTask
    \/ MarkComplete
    \/ MarkFailed
    \/ LogRetry
    \/ IsComplete
    \/ Restart

SpecSM == InitSM /\ [][NextSM]_vars

\* ==================================================================== claims
TaskIds == 1..Len(tasks)
CompleteTasks == {i \in TaskIds : tasks[i].status = "complete"}

\* A run whose collaborators behave: no execute_task call failed and no
\* human checkpoint was requested.
CleanRun == ~collab_failed /\ ~hitl_requested

\* C1: with an always-succeeding execution collaborator and an always-passing
\* gate battery, a finished run of a plan of N pending tasks has exactly N
\* tasks complete, is_complete() true and run() returning True.
C1_AllTasksComplete ==
    (pc = "done" /\ CleanRun /\ \A i \in TaskIds : gate_plan[i] = 0)
        => /\ Cardinality(CompleteTasks) = Len(tasks)
           /\ is_complete(tasks)
           /\ run_result = "true"

C3_FailsThenPasses ==
    (pc = "done" /\ CleanRun)
        => \A i \in TaskIds :
              gate_plan[i] \in 1..max_retries
                  => /\ tasks[i].status = "complete"
                     /\ tasks[i].retry_count = gate_plan[i]

\* C4: exhaustion of one task never ends the run while pending tasks remain:
\* once some task has been marked failed for exhausted retries, the loop is
\* left only with every task complete or failed, or by a HITL timeout.
C4_ExhaustionNeverHalts ==
    (exhausted # {} /\ pc \in {"finalize", "done"} /\ exit_reason # "hitl_timeout")
        => \A i \in TaskIds : tasks[i].status \in {"complete", "failed"}

\* C4 witness: task 1 exhausted its retries and task 2 was processed after it.
C4_Witness ==
    /\ pc = "done"
    /\ Len(tasks) = 2
    /\ 1 \in exhausted
    /\ max_retries > 0
    /\ tasks[2].status = "failed"
    /\ tasks[2].retry_count = max_retries

\* C5: verify_all returns passed = true iff every enabled gate passed; a
\* disabled gate contributes nothing, a disabled perception gate is recorded
\* as passed.
C5_PassedIffEnabledPassed ==
    gate_result # NoResult =>
        /\ gate_result.passed =
              (\A g \in GateNames : gates_enabled[g] => gate_result.gate_status[g])
        /\ DOMAIN gate_result.gate_status =
              {g \in GateNames : gates_enabled[g]} \cup {"perception"}
        /\ \A g \in GateNames \ {"effort"} :
              gates_enabled[g] =>
                  gate_result.gate_status[g] = RunGate(g, gate_inputs, 0).passed
        /\ gates_enabled["effort"] =>
              gate_result.gate_status["effort"] =
                  (gate_result.tokens_used <= effort_max_tokens)
        /\ ~gates_enabled["perception"] => gate_result.gate_status["perception"]

\* C5 witness: a failing check of a disabled gate leaves the result passed,
\* next to the skipped perception gate.
C5_Witness ==
    /\ gate_result # NoResult
    /\ ~gates_enabled["technical"]
    /\ ~gates_enabled["perception"]
    /\ gate_inputs.pytest = "fail"
    /\ gate_result.passed

\* C5 second case: an enabled failing gate makes the result false.
C5_WitnessFail ==
    /\ gate_result # NoResult
    /\ gates_enabled["ethics"]
    /\ gate_inputs.ethics_available
    /\ ~gate_inputs.charter_safe
    /\ ~gate_result.passed

TerminalStatuses == {"approved", "rejected", "timeout", "auto_approved"}

\* C6: a checkpoint's status leaves pending at most once: once it is
\* approved, rejected, timeout or auto_approved no later operation changes it.
C6_TerminalStatusFinal ==
    [][\A id \in KnownIds :
          checkpoints[id].status \in TerminalStatuses
              => checkpoints'[id].status = checkpoints[id].status]_vars

\* C7: every checkpoint held in pending_checkpoints has status pending.
C7_ActiveSetIsPending ==
    \A id \in pending_checkpoints : checkpoints[id].status = "pending"

\* C8: a blocking checkpoint() call that no resolve() ever answered returns
\* TIMEOUT, and TIMEOUT is returned only once the waited time has reached
\* the configured timeout (minutes * 60 seconds).
C8_TimeoutNotBefore ==
    waiter.state = "returned" =>
        /\ checkpoints[waiter.id].resolved_by = "none"
              => returned[waiter.id] = "timeout"
        /\ returned[waiter.id] = "timeout"
              => waiter.elapsed >= timeout_minutes * SecondsPerMinute

\* C8 witness: an unanswered blocking call has returned TIMEOUT after the
\* whole of a one-minute timeout.
C8_Witness ==
    /\ waiter.state = "returned"
    /\ timeout_minutes = 1
    /\ checkpoints[waiter.id].resolved_by = "none"
    /\ returned[waiter.id] = "timeout"
    /\ waiter.elapsed = 60

\* C9: resolve on a pending checkpoint sets approved or rejected by the flag,
\* removes it from the active set and returns the record; resolve on an id
\* that is not in the active set returns none and changes nothing.
C9_ResolveContract ==
    [][last_resolve' # last_resolve =>
          LET id == last_resolve'.id
          IN  IF id \in pending_checkpoints
              THEN checkpoints[id].status = "pending" =>
                     /\ last_resolve'.result = "record"
                     /\ checkpoints'[id].status =
                           (IF last_resolve'.approved THEN "approved" ELSE "rejected")
                     /\ pending_checkpoints' = pending_checkpoints \ {id}
                     /\ \A o \in KnownIds \ {id} : checkpoints'[o] = checkpoints[o]
              ELSE /\ last_resolve'.result = "none"
                   /\ checkpoints' = checkpoints
                   /\ pending_checkpoints' = pending_checkpoints
                   /\ returned' = returned]_vars

\* C9 witness: a second resolve of an already resolved checkpoint returned
\* none while another checkpoint is still pending.
C9_Witness ==
    /\ last_resolve.result = "none"
    /\ last_resolve.id \in KnownIds
    /\ checkpoints[last_resolve.id].resolved_by = "human"
    /\ checkpoints[last_resolve.id].status \in {"approved", "rejected"}
    /\ pending_checkpoints # {}

\* C10: checkpoint with reason SCHEDULED under auto-approve returns
\* AUTO_APPROVED, leaves the active set alone and calls neither notifier;
\* any other call registers the checkpoint as pending.
C10_AutoApproveFrame ==
    [][next_id' # next_id =>
          LET id == next_id
          IN  IF checkpoints'[id].reason = "scheduled" /\ auto_approve
              THEN /\ returned'[id] = "auto_approved"
                   /\ checkpoints'[id].status = "auto_approved"
                   /\ pending_checkpoints' = pending_checkpoints
                   /\ email_calls' = email_calls
                   /\ webhook_calls' = webhook_calls
              ELSE /\ id \in pending_checkpoints'
                   /\ checkpoints'[id].status = "pending"]_vars

\* C10 witness: a SCHEDULED checkpoint was auto-approved with no entry in the
\* active set and no notification sent.
C10_Witness ==
    \E id \in KnownIds :
        /\ checkpoints[id].reason = "scheduled"
        /\ auto_approve
        /\ returned[id] = "auto_approved"
        /\ pending_checkpoints = {}
        /\ email_calls = 0
        /\ webhook_calls = 0
        /\ ~stationary

\* C10 second case: with the flag off a SCHEDULED checkpoint is pending.
C10_WitnessRegistered ==
    \E id \in KnownIds :
        /\ checkpoints[id].reason = "scheduled"
        /\ ~auto_approve
        /\ id \in pending_checkpoints
        /\ checkpoints[id].status = "pending"

PendingTasks == {i \in TaskIds : tasks[i].status = "pending"}

\* C11: get_next_task returns the first task in plan order whose status is
\* pending and sets exactly that task to in_progress, no other task and no
\* other field changing; it returns none and changes nothing exactly when no
\* task is pending.
C11_GetNextTaskContract ==
    [][sm_call'.op = "get_next_task" =>
          IF PendingTasks = {}
          THEN /\ sm_call'.task = NoTask
               /\ tasks' = tasks
               /\ store' = store
          ELSE LET t == sm_call'.task
               IN  /\ t \in PendingTasks
                   /\ \A j \in PendingTasks : t <= j
                   /\ tasks'[t].status = "in_progress"
                   /\ tasks'[t].retry_count = tasks[t].retry_count
                   /\ tasks'[t].last_failure = tasks[t].last_failure
                   /\ tasks'[t].title = tasks[t].title
                   /\ tasks'[t].id = tasks[t].id
                   /\ Len(tasks') = Len(tasks)
                   /\ \A j \in TaskIds \ {t} : tasks'[j] = tasks[j]]_vars

\* C11 witness: the second task was returned and set in_progress while the
\* first, not pending, and a later pending task were left alone.
C11_Witness ==
    /\ sm_call.op = "get_next_task"
    /\ sm_call.task = 2
    /\ Len(tasks) = 2
    /\ tasks[1].status = "failed"
    /\ tasks[2].status = "in_progress"

\* C11 second case: none was returned although a task is in_progress.
C11_WitnessNone ==
    /\ sm_call.op = "get_next_task"
    /\ sm_call.task = NoTask
    /\ \E i \in TaskIds : tasks[i].status = "in_progress"

\* C12: is_complete() is true iff every task's status is complete or failed:
\* true for the empty plan, false whenever some task is pending, in_progress
\* or blocked.
C12_IsCompleteIff ==
    /\ is_complete(tasks) =
          (\A i \in TaskIds : tasks[i].status = "complete" \/ tasks[i].status = "failed")
    /\ Len(tasks) = 0 => is_complete(tasks)
    /\ (\E i \in TaskIds : tasks[i].status \in {"pending", "in_progress", "blocked"})
          => ~is_complete(tasks)
    /\ sm_call.op = "is_complete" =>
          sm_call.ok = (\A i \in TaskIds : tasks[i].status \in {"complete", "failed"})

\* C12 witness: is_complete() answered false for a plan whose only
\* unfinished task is blocked.
C12_Witness ==
    /\ sm_call.op = "is_complete"
    /\ ~sm_call.ok
    /\ Len(tasks) = 2
    /\ tasks[1].status = "complete"
    /\ tasks[2].status = "blocked"

\* C12 second case: is_complete() answered true with a failed task.
C12_WitnessTrue ==
    /\ sm_call.op = "is_complete"
    /\ sm_call.ok
    /\ \E i \in TaskIds : tasks[i].status = "failed"

\* C13: after any sequence of StateManager mutations the state file holds the
\* in-memory plan: a new StateManager loaded from it has the same ordered
\* task list, with the same statuses, retry counts and failure reasons.
C13_StoreRoundTrip ==
    /\ Len(store) = Len(tasks)
    /\ _load(store) = tasks
    /\ \A i \in TaskIds :
          /\ _load(store)[i].status = tasks[i].status
          /\ _load(store)[i].retry_count = tasks[i].retry_count

\* C13 witness: a restart reloaded a plan that had gone through retries, a
\* completion and a failure.
C13_Witness ==
    /\ sm_call.op = "_load"
    /\ Len(tasks) = 2
    /\ tasks[1].status = "complete"
    /\ tasks[1].retry_count = 2
    /\ tasks[2].status = "failed"
    /\ tasks[2].last_failure = "gate"

\* C14: log_retry(id, reason) on an existing task adds exactly one to its
\* retry count, records the reason and sets its status to pending, every
\* other task unchanged, so that get_next_task has a pending task to select;
\* on an unknown id it changes nothing.
C14_LogRetryContract ==
    [][sm_call'.op = "log_retry" =>
          LET id == get_task(tasks, sm_call'.id)
          IN  IF id # NoTask
              THEN /\ tasks[id].id = sm_call'.id
                   /\ tasks'[id].id = sm_call'.id
                   /\ tasks'[id].retry_count = tasks[id].retry_count + 1
                   /\ tasks'[id].last_failure = sm_call'.reason
                   /\ tasks'[id].status = "pending"
                   /\ tasks'[id].title = tasks[id].title
                   /\ Len(tasks') = Len(tasks)
                   /\ \A j \in TaskIds \ {id} : tasks'[j] = tasks[j]
                   /\ FirstPending(tasks') \in 1..id
                   /\ get_next_task(tasks')[FirstPending(tasks')].status = "in_progress"
              ELSE /\ tasks' = tasks
                   /\ store' = store]_vars

\* C14 witness: a failed task was put back to pending by log_retry with its
\* second retry recorded.
C14_Witness ==
    /\ sm_call.op = "log_retry"
    /\ sm_call.id = 2
    /\ Len(tasks) = 2
    /\ tasks[2].id = 2
    /\ tasks[2].status = "pending"
    /\ tasks[2].retry_count = 2
    /\ tasks[2].last_failure = sm_call.reason
    /\ tasks[1].status = "in_progress"

\* C14 second case: log_retry on an unknown id.
C14_WitnessUnknown ==
    /\ sm_call.op = "log_retry"
    /\ get_task(tasks, sm_call.id) = NoTask
    /\ Len(tasks) > 0

\* The enabled gates the last verify_all recorded as failed, by position.
FailedGates ==
    {k \in 1..Len(GateOrder) :
        /\ gates_enabled[GateOrder[k]]
        /\ ~gate_result.gate_status[GateOrder[k]]}

\* C15: failure_reason is the reason of the first failing gate in the order
\* technical, virtue, ethics, judge, strategy, perception, effort; a later
\* failing gate never overwrites it, and it is empty when no gate failed.
C15_FirstFailureReason ==
    gate_result # NoResult =>
        IF FailedGates = {}
        THEN gate_result.failure_reason = "none"
        ELSE \E k \in FailedGates :
                /\ \A j \in FailedGates : k <= j
                /\ gate_result.failure_reason = GateOrder[k]

\* C15 witness: technical, ethics and effort failed in one call and the
\* reason reported is the technical one.
C15_Witness ==
    /\ gate_result # NoResult
    /\ {1, 3, 7} \subseteq FailedGates
    /\ gate_result.failure_reason = "technical"

\* C15 second case: technical disabled, virtue and effort failed.
C15_WitnessVirtue ==
    /\ gate_result # NoResult
    /\ FailedGates = {2, 7}
    /\ gate_result.failure_reason = "virtue"

\* Every check the gates consult reports success.
AllChecksPass ==
    /\ _gate_technical(gate_inputs).passed
    /\ _gate_virtue(gate_inputs).passed
    /\ _gate_ethics(gate_inputs).passed
    /\ _gate_virtue(gate_inputs).tokens <= effort_max_tokens

\* C16: with all seven gates enabled and every gate passing verify_all
\* returns passed = True and a gate_status of exactly 7 entries, all true;
\* with perception disabled gate_status still has a perception entry, true.
C16_SevenEntries ==
    gate_result # NoResult =>
        /\ ((\A g \in GateNames : gates_enabled[g]) /\ AllChecksPass)
              => /\ gate_result.passed
                 /\ Cardinality(DOMAIN gate_result.gate_status) = 7
                 /\ DOMAIN gate_result.gate_status = GateNames
                 /\ \A g \in GateNames : gate_result.gate_status[g]
        /\ ~gates_enabled["perception"]
              => /\ "perception" \in DOMAIN gate_result.gate_status
                 /\ gate_result.gate_status["perception"]

\* C16 witness: all seven gates enabled, every check passing.
C16_Witness ==
    /\ gate_result # NoResult
    /\ \A g \in GateNames : gates_enabled[g]
    /\ AllChecksPass
    /\ gate_inputs.virtue_available
    /\ gate_inputs.ethics_available
    /\ gate_result.passed

\* C16 second case: the default configuration, perception disabled.
C16_WitnessDefault ==
    /\ gate_result # NoResult
    /\ gates_enabled = DefaultGates
    /\ AllChecksPass
    /\ Cardinality(DOMAIN gate_result.gate_status) = 7

\* Tokens reported by the enabled token-consuming gates (2, 4 and 6).
TokenSum ==
    (IF gates_enabled["virtue"] THEN _gate_virtue(gate_inputs).tokens ELSE 0)
    + (IF gates_enabled["judge"] THEN _gate_judge(gate_inputs).tokens ELSE 0)
    + (IF gates_enabled["perception"] THEN _gate_perception(gate_inputs).tokens ELSE 0)

\* C17: tokens_used is the token cost summed over gates 2, 4 and 6 and the
\* Effort gate passes iff that sum does not exceed the per-task ceiling: the
\* 50,000 default, or the ceiling the gate was configured with; with the
\* ceiling set to 0 and more than 0 tokens reported verify_all returns
\* passed = False, the reason being the exceeded budget when no earlier gate
\* failed.
C17_EffortCeiling ==
    (gate_result # NoResult /\ gates_enabled["effort"]) =>
        /\ gate_result.tokens_used = TokenSum
        /\ effort_threshold = effort_max_tokens
              => gate_result.gate_status["effort"] = (TokenSum <= effort_max_tokens)
        /\ (effort_threshold = 0 /\ TokenSum > 0)
              => /\ ~gate_result.gate_status["effort"]
                 /\ ~gate_result.passed
                 /\ FailedGates = {7} => gate_result.failure_reason = "effort"

\* C18: the k-th call of should_checkpoint_scheduled returns true iff k is a
\* multiple of the check interval, and the counter grows by one per call
\* (run() makes a SCHEDULED checkpoint exactly when the call returns true).
C18_EveryNthCall ==
    [][task_counter' # task_counter =>
          /\ task_counter' = task_counter + 1
          /\ (next_id' # next_id) <=>
                (\E m \in 1..task_counter' : task_counter' = m * check_interval)]_vars

\* C18 witness: after ten calls exactly two returned true, the fifth and the
\* tenth.
C18_Witness ==
    /\ task_counter = 2 * check_interval
    /\ next_id = 3
    /\ Len(checkpoints) = 2
    /\ checkpoints[2].reason = "scheduled"

\* C19: a rejected high-risk checkpoint is a skip: the task is not marked
\* failed, its retry count stays and the loop goes on to the next task.
C19_RejectedIsSkip ==
    [][(pc = "hitl" /\ pc' # "hitl" /\ hitl_status' = "rejected"
            /\ detect_high_risk(risk_text(tasks[current])))
          => /\ pc' = "loop"
             /\ tasks'[current].status # "failed"
             /\ tasks'[current].retry_count = tasks[current].retry_count]_vars

\* C20: a HITL timeout stops the whole loop: from the timeout on no task is
\* attempted, verified or marked failed (the plan and the call counts stay
\* as they are), run() goes to its end and returns false.
C20_TimeoutStopsLoop ==
    [][exit_reason' = "hitl_timeout" =>
          /\ hitl_status' = "timeout"
          /\ tasks' = tasks
          /\ exec_calls' = exec_calls
          /\ gate_runs' = gate_runs
          /\ pc' \in {"finalize", "done", "exited"}
          /\ tasks'[current'].status = "in_progress"
          /\ pc' = "done" => run_result' = "false"]_vars

\* C20 witness: the run returned false after a timeout on the first task,
\* the second task never having been selected.
C20_Witness ==
    /\ pc = "done"
    /\ exit_reason = "hitl_timeout"
    /\ run_result = "false"
    /\ Len(tasks) = 2
    /\ tasks[1].status = "in_progress"
    /\ tasks[2].status = "pending"
    /\ tasks[2].retry_count = 0

\* C20 second case: the timeout came on a retry of an approved task.
C20_WitnessRetry ==
    /\ pc = "done"
    /\ exit_reason = "hitl_timeout"
    /\ \E i \in TaskIds : tasks[i].status = "in_progress" /\ tasks[i].retry_count > 0

\* C21: every task attempt calls the execution collaborator for the frame,
\* implement and refine phases in that order (frame always, implement after
\* a successful frame, refine after a successful implement), and an attempt
\* in which a phase did not succeed is an execution failure: no gate
\* verification, task not marked complete.
C21_ThreePhases ==
    [][(pc = "effort" /\ pc' = "scheduled") =>
          LET calls == exec_calls'[current] - exec_calls[current]
              phase_failed == collab_failed' /\ ~collab_failed
          IN  /\ calls \in 1..3
              /\ calls < 3 => phase_failed
              /\ phase_failed =>
                    /\ gate_runs' = gate_runs
                    /\ tasks'[current].status # "complete"]_vars

\* C22: every significant event of a task attempt -- a completion, a retry
\* (after a gate failure or an execution failure), a permanent failure --
\* appends exactly one line to the ledger, as do boot and the final summary.
C22_LedgerOnEveryEvent ==
    [][/\ \A i \in TaskIds :
            (\/ tasks'[i].retry_count > tasks[i].retry_count
             \/ tasks'[i].status = "failed" /\ tasks[i].status # "failed"
             \/ tasks'[i].status = "complete" /\ tasks[i].status # "complete")
                => Len(ledger') = Len(ledger) + 1
       /\ (pc' = "done" /\ pc # "done")
            => ledger' = Append(ledger, "LOOP_COMPLETE")
       /\ ledger[1] = "HARNESS_BOOT"]_vars

\* C23: the exit code is 0 exactly when the run ended with every task of the
\* plan complete, 130 exactly when the run was interrupted, and 1 otherwise.
C23_ExitCodes ==
    pc = "exited" =>
        /\ exit_code \in {<<0>>, <<1>>, <<130>>}
        /\ (exit_code = <<130>>) = (exit_reason = "interrupt")
        /\ exit_reason # "interrupt" =>
              (exit_code = <<0>>) = (\A i \in TaskIds : tasks[i].status = "complete")

\* C24: task identifiers are pairwise distinct within the plan, so that a
\* mutation by id affects the one task the caller means; initialize_from_prd
\* yields pending tasks only.
C24_UniqueIds ==
    /\ \A i, j \in TaskIds : i # j => tasks[i].id # tasks[j].id
    /\ sm_call.op = "initialize_from_prd" =>
          \A i \in TaskIds : tasks[i].status = "pending" /\ tasks[i].retry_count = 0

\* ceil(len(text) / 4)
CeilQuarter(text) == (Len(text) + 3) \div 4

\* C25: add(text) appends the text to the buffer, increases the token count
\* by exactly ceil(len(text)/4) and returns the updated count.
C25_AddCeil ==
    [][tc_call'.op = "add" =>
          /\ context_buffer' = context_buffer \o tc_call'.text
          /\ current_tokens' = current_tokens + CeilQuarter(tc_call'.text)
          /\ tc_call'.ret = current_tokens']_vars

\* C26: should_distill(threshold) is true exactly when current/max strictly
\* exceeds the threshold; with max_tokens = 0 the usage ratio is 0 whatever
\* was added, so should_distill is then false.
C26_StrictThreshold ==
    /\ tc_call.op = "should_distill" =>
          tc_call.ok = (IF max_tokens > 0
                        THEN current_tokens * 100 > tc_call.threshold * max_tokens
                        ELSE FALSE)
    /\ tc_call.op = "get_usage_ratio" =>
          IF max_tokens = 0
          THEN tc_call.usage[1] = 0 /\ tc_call.usage[2] # 0
          ELSE tc_call.usage[1] * max_tokens = current_tokens * tc_call.usage[2]

\* C26 witness: the usage ratio equals the threshold (1 of 2 tokens, 0.50)
\* and should_distill answered false.
C26_Witness ==
    /\ tc_call.op = "should_distill"
    /\ max_tokens = 2
    /\ current_tokens = 1
    /\ tc_call.threshold = 50
    /\ ~tc_call.ok

\* C26 second case: max_tokens = 0, text was added, the ratio read is 0.
C26_WitnessZeroMax ==
    /\ tc_call.op = "get_usage_ratio"
    /\ max_tokens = 0
    /\ current_tokens > 0
    /\ tc_call.usage[1] = 0

\* C26 third case: the ratio exceeds the threshold and the answer is true.
C26_WitnessTrue ==
    /\ tc_call.op = "should_distill"
    /\ max_tokens = 4
    /\ current_tokens = 3
    /\ tc_call.threshold = 70
    /\ tc_call.ok

\* C27: the token count is a function of the buffer content alone -- the
\* estimate for the buffer, as reset_with_summary sets it -- never negative
\* and never more than the content implies.
C27_CountFromBuffer ==
    /\ current_tokens >= 0
    /\ current_tokens <= _estimate_tokens(context_buffer)
    /\ current_tokens = _estimate_tokens(context_buffer)

\* C28: the k-th distill call on one RLMDistiller writes k in its summary's
\* header line: the counter starts at 1 and grows by exactly one per call,
\* whatever the context text.
C28_HeaderCountsCalls ==
    /\ distillation_count = Len(summaries)
    /\ \A k \in 1..Len(summaries) : summaries[k].header = k

\* C28 witness: two distill calls, both summaries written, headers 1 and 2.
C28_Witness ==
    /\ tc_call.op = "distill"
    /\ Len(tc_call.text) > 0
    /\ Len(summaries) = 2
    /\ summaries[1].saved /\ summaries[1].header = 1
    /\ summaries[2].saved /\ summaries[2].header = 2

\* C29: a checkpoint that is not auto-approved invokes the email collaborator
\* only in non-stationary mode and the webhook collaborator always; whatever
\* the two return, the checkpoint is registered as pending, and a blocking
\* call ends in approved, rejected or timeout.
C29_NotifyBestEffort ==
    [][/\ (next_id' # next_id /\ returned'[next_id] # "auto_approved") =>
            /\ email_calls' = email_calls + (IF stationary THEN 0 ELSE 1)
            /\ webhook_calls' = webhook_calls + 1
            /\ last_notify'.webhook \in {"sent", "failed"}
            /\ last_notify'.email \in
                  (IF stationary THEN {"skipped"} ELSE {"sent", "failed"})
            /\ next_id \in pending_checkpoints'
            /\ checkpoints'[next_id].status = "pending"
       /\ (waiter.state = "waiting" /\ waiter'.state = "returned") =>
            returned'[waiter.id] \in {"approved", "rejected", "timeout"}]_vars

\* C29 witness: both collaborators failed, the checkpoint was registered and
\* the blocking call ended in timeout.
C29_Witness ==
    /\ ~stationary
    /\ last_notify = [email |-> "failed", webhook |-> "failed"]
    /\ waiter.state = "returned"
    /\ waiter.id = next_id - 1
    /\ returned[waiter.id] = "timeout"
    /\ email_calls > 0
    /\ webhook_calls > 0

\* C29 second case: stationary mode, no email, webhook failed, approved.
C29_WitnessStationary ==
    /\ stationary
    /\ last_notify = [email |-> "skipped", webhook |-> "failed"]
    /\ email_calls = 0
    /\ waiter.state = "returned"
    /\ waiter.id = next_id - 1
    /\ returned[waiter.id] = "approved"

\* C30: the Virtue gate passes exactly when the scorer's score reaches the
\* threshold, the Ethics gate exactly when the charter checker reports
\* compliance; each passes by default, with 0 tokens, when its external
\* check is unavailable.
C30_FailOpen ==
    gate_result # NoResult =>
        LET in == gate_inputs
            st == gate_result.gate_status
        IN  /\ gates_enabled["virtue"] =>
                  st["virtue"] = (IF in.virtue_available
                                  THEN in.alignment_pm >= virtue_threshold_pm
                                  ELSE TRUE)
            /\ gates_enabled["ethics"] =>
                  st["ethics"] = (IF in.ethics_available THEN in.charter_safe ELSE TRUE)
            /\ (gates_enabled["virtue"] /\ ~in.virtue_available) =>
                  gate_result.tokens_used = 0

\* C30 witness: scorer and checker both unavailable, a score below the
\* threshold and a non-compliant charter, both gates recorded as passed.
C30_Witness ==
    /\ gate_result # NoResult
    /\ gates_enabled["virtue"] /\ gates_enabled["ethics"]
    /\ ~gate_inputs.virtue_available
    /\ ~gate_inputs.ethics_available
    /\ gate_inputs.alignment_pm < virtue_threshold_pm
    /\ ~gate_inputs.charter_safe
    /\ gate_result.gate_status["virtue"]
    /\ gate_result.gate_status["ethics"]

\* C30 second case: the scorer is available and scores below the threshold.
C30_WitnessScored ==
    /\ gate_result # NoResult
    /\ gates_enabled["virtue"]
    /\ gate_inputs.virtue_available
    /\ gate_inputs.alignment_pm < virtue_threshold_pm
    /\ ~gate_result.gate_status["virtue"]

\* C31: verify_all always returns a GateResult and never lets an exception
\* out, whatever the test runner, the linter, the scorer and the charter
\* checker do.
C31_VerifyAllNeverRaises ==
    /\ ~gate_raised
    /\ gate_inputs # NoInputs => gate_result # NoResult

\* C32: the Technical gate passes exactly when tests pass, lint passes and
\* coverage reaches the threshold; a test-runner timeout or missing test
\* tool is tests failed, a missing or timed-out lint tool is lint passed,
\* coverage that cannot be parsed is 0.
C32_TechnicalIff ==
    (gate_result # NoResult /\ gates_enabled["technical"]) =>
        LET in == gate_inputs
            tests == in.pytest = "pass"
            lint == in.lint # "fail"
            coverage == IF in.pytest \in {"timeout", "missing"} \/ in.coverage_total = << >>
                        THEN 0 ELSE in.coverage_total[1]
        IN  gate_result.gate_status["technical"] =
               (tests /\ lint /\ coverage >= technical_threshold_pct)

\* C32 witness: tests pass, the lint tool timed out, coverage at the
\* threshold: the gate passed.
C32_Witness ==
    /\ gate_result # NoResult
    /\ gates_enabled["technical"]
    /\ gate_inputs.pytest = "pass"
    /\ gate_inputs.lint = "timeout"
    /\ gate_inputs.coverage_total = <<80>>
    /\ gate_result.gate_status["technical"]

\* C32 second case: tests pass and lint is clean but the output has no
\* coverage figure: the gate failed.
C32_WitnessNoCoverage ==
    /\ gate_result # NoResult
    /\ gates_enabled["technical"]
    /\ gate_inputs.pytest = "pass"
    /\ gate_inputs.lint = "pass"
    /\ gate_inputs.coverage_total = << >>
    /\ ~gate_result.gate_status["technical"]

\* C32 third case: the test runner timed out.
C32_WitnessTimeout ==
    /\ gate_result # NoResult
    /\ gates_enabled["technical"]
    /\ gate_inputs.pytest = "timeout"
    /\ gate_inputs.lint = "missing"
    /\ ~gate_result.gate_status["technical"]

\* C33: when resolve(id, approved) ran during the blocking wait of checkpoint
\* id, before the timeout had elapsed (the last poll interval included), the
\* blocking call returns the resolved status, never timeout, and the
\* checkpoint record keeps it.
C33_ResolveBeatsTimeout ==
    [][(/\ waiter.state = "waiting"
        /\ waiter'.state = "returned"
        /\ timeout_seconds > 0
        /\ checkpoints[waiter.id].status \in {"approved", "rejected"}) =>
            /\ returned'[waiter.id] = checkpoints[waiter.id].status
            /\ checkpoints'[waiter.id].status = checkpoints[waiter.id].status]_vars

\* The order of the steps of one iteration of run(), as pairs of positions.
StepOrder ==
    {<<"loop", "hitl">>, <<"loop", "finalize">>,
     <<"hitl", "budget">>, <<"hitl", "finalize">>, <<"hitl", "crashed">>,
     <<"budget", "effort">>, <<"effort", "scheduled">>, <<"scheduled", "loop">>,
     <<"finalize", "done">>, <<"done", "exited">>, <<"crashed", "exited">>}

UsageExceedsThreshold ==
    max_tokens > 0 /\ current_tokens * 100 > distill_threshold_pct * max_tokens

C34_WitnessAtThreshold ==
    /\ pc = "effort"
    /\ current_tokens = 7
    /\ max_tokens = 10
    /\ distillations = 0

\* C35: at every point of a run, an interrupt included, the state file is a
\* whole document that reloads to the plan in memory (the plan before the
\* mutation when none is under way, the plan after it once it is done).
C35_StoreNeverTorn ==
    /\ ~store_torn
    /\ _load(store) = tasks

\* A plan with a task in_progress and no pending task.
Wedged(ts) ==
    /\ \E i \in 1..Len(ts) : ts[i].status = "in_progress"
    /\ \A i \in 1..Len(ts) : ts[i].status # "pending"

\* C36: with a task in_progress and no pending task at the top of the loop,
\* run() leaves the loop at once (get_next_task returns none, is_complete is
\* false), changes no task and no file, calls no collaborator and returns
\* false; the process exits 1 and a restart loads the same wedged plan.
C36_WedgedPlan ==
    [][(Wedged(tasks) /\ pc \in {"loop", "finalize", "done", "exited"}) =>
          /\ tasks' = tasks
          /\ store' = store
          /\ exec_calls' = exec_calls
          /\ ~is_complete(tasks)
          /\ (pc = "loop" /\ exit_reason' # "interrupt") =>
                (pc' = "finalize" /\ exit_reason' = "no_task")
          /\ (pc = "finalize" /\ pc' = "done") => run_result' = "false"
          /\ (pc = "done" /\ exit_reason' # "interrupt") =>
                exit_code' = UncaughtExceptionStatus
          /\ (pc = "exited" /\ pc' = "loop") => Wedged(tasks')]_vars

\* C36 witness: a wedged plan loaded at startup went through a first run and
\* a restart, and the second run has ended the same way.
C36_Witness ==
    /\ BootLines(ledger) = 2
    /\ pc = "exited"
    /\ exit_reason = "no_task"
    /\ run_result = "false"
    /\ exit_code = <<1>>
    /\ Wedged(tasks)
    /\ current = NoTask
    /\ _load(store) = tasks

\* C37: in a run started from retry counts 0, no task's retry_count exceeds
\* max_retries, no task is attempted more than max_retries + 1 times, and a
\* task marked failed (every one of its attempts failed) was marked on
\* attempt max_retries + 1 with retry_count = max_retries.
C37_RetryBound ==
    \A i \in TaskIds :
        /\ tasks[i].retry_count <= max_retries
        /\ attempts[i] <= max_retries + 1
        /\ tasks[i].status = "failed" =>
              /\ attempts[i] = max_retries + 1
              /\ tasks[i].retry_count = max_retries
        /\ tasks[i].status = "pending" => attempts[i] = tasks[i].retry_count

\* C38: in a run started from a plan with no task in_progress, at most one
\* task is in_progress in every state, and none is at the top of the loop.
C38_OneInProgress ==
    /\ Cardinality({i \in TaskIds : tasks[i].status = "in_progress"}) <= 1
    /\ pc = "loop" => \A i \in TaskIds : tasks[i].status # "in_progress"

\* C39: a task's retry_count never decreases, a task that is complete or
\* failed never changes again, and the only task a step changes is the one
\* the Engine holds.
C39_TerminalAbsorbing ==
    [][\A i \in TaskIds :
          /\ tasks'[i].retry_count >= tasks[i].retry_count
          /\ tasks[i].status \in {"complete", "failed"} => tasks'[i] = tasks[i]
          /\ tasks'[i] # tasks[i] =>
                \/ i = current'
                \/ pc = "loop" /\ i = FirstPending(tasks)]_vars

RECURSIVE SumSeq(_)
SumSeq(q) == IF Len(q) = 0 THEN 0 ELSE Head(q) + SumSeq(Tail(q))

\* The iterations of the loop started so far: one per attempt made, and the
\* one under way or ended by the HITL check before its attempt.
Iterations ==
    SumSeq(attempts)
      + IF pc \in {"hitl", "budget", "effort"} \/ exit_reason \in {"hitl_timeout", "exception"}
        THEN 1 ELSE 0

\* C40: a run that is not interrupted starts at most
\* (number of tasks) x (max_retries + 1) iterations, and eventually run()
\* has returned with LOOP_COMPLETE as the last line of the ledger.
C40_Terminates ==
    /\ [](Iterations <= Len(tasks) * (max_retries + 1))
    /\ <>(/\ pc = "exited"
          /\ run_result \in {"true", "false"}
          /\ ledger[Len(ledger)] = "LOOP_COMPLETE")

====
